---- MODULE Spec2Model ----
(***************************************************************************)
(* Button Maker Image Tool (brendonthiede/button-printer).                 *)
(*                                                                         *)
(* A model of the button-size catalog (js/buttonSizes.js), the print       *)
(* generator (js/printGenerator.js), the settings manager                  *)
(* (js/settingsManager.js), the image loader (js/imageLoader.js), the      *)
(* transform state of the canvas controller (js/canvasController.js) and   *)
(* the handlers of js/app.js for image selection, size change, printing,   *)
(* settings and calibration.  The handlers that only change the image      *)
(* transform or the mode (handleScaleChange, setMode, the pointer and      *)
(* wheel handlers of the controller) are not actions of Spec.              *)
(*                                                                         *)
(* JavaScript numbers are modelled as exact rationals <<n, d>> extended    *)
(* with the IEEE specials Infinity = <<1, 0>>, -Infinity = <<-1, 0>> and   *)
(* NaN = <<0, 0>>.  Rounding of binary floating point and the sign of zero *)
(* are not modelled.                                                       *)
(***************************************************************************)
EXTENDS Integers, Sequences, FiniteSets, TLC

VARIABLES
  app,                      \* "loading" until init() has run, then "running", or
                            \* "crashed" when init() threw before binding the events
  localStorage,             \* window.localStorage: the item of each key
  storageQuota,             \* the characters localStorage may hold
  storageWarning,           \* whether #storage-warning is shown
  calibrationMeasuredInput, \* the value of #calibration-measured
  calibrationStatus,        \* what #calibration-status shows
  settingsForm,             \* the values of #printer-name and #printer-notes
  saveSettingsBtn,          \* the text of #save-settings-btn
  controller,               \* the CanvasController
  currentSizeKey,
  scaleSlider,              \* the value of #scale-slider
  loading,                  \* the files whose loadImage promise is pending
  fileLabelText,            \* the text of #file-label-text
  imageError,               \* what #image-error shows
  printLayout,              \* the content of #print-layout
  invocation,   \* the library function last called directly, with its arguments
  outcome       \* what that call returned or threw

appVars == <<app, localStorage, storageQuota, storageWarning, calibrationMeasuredInput,
             calibrationStatus, settingsForm, saveSettingsBtn, controller,
             currentSizeKey, scaleSlider, loading, fileLabelText, imageError,
             printLayout>>

pureVars == <<invocation, outcome>>

vars == <<appVars, pureVars>>

(***************************************************************************)
(* JavaScript numbers                                                      *)
(***************************************************************************)

Abs(n) == IF n < 0 THEN -n ELSE n

Sgn(n) == IF n < 0 THEN -1 ELSE IF n > 0 THEN 1 ELSE 0

RECURSIVE GCD(_, _)
GCD(a, b) == IF b = 0 THEN a ELSE GCD(b, a % b)

\* the number n/d in lowest terms with a positive denominator; d = 0 gives
\* the special of n's sign
Num(n, d) ==
  IF d = 0 THEN <<Sgn(n), 0>>
  ELSE LET g == GCD(Abs(n), Abs(d))
           s == IF d < 0 THEN -1 ELSE 1
       IN  <<(s * n) \div g, (s * d) \div g>>

Whole(n) == <<n, 1>>

NaN == <<0, 0>>

Infinity == <<1, 0>>

\* the value of a variable or property that holds no value
Undefined == <<>>

IsNumber(a) == a # Undefined

JSisNaN(a) == a = NaN

IsFiniteNumber(a) == a[2] # 0

JSNeg(a) == <<-a[1], a[2]>>

JSAdd(a, b) ==
  IF IsFiniteNumber(a) /\ IsFiniteNumber(b)
  THEN Num(a[1] * b[2] + b[1] * a[2], a[2] * b[2])
  ELSE IF JSisNaN(a) \/ JSisNaN(b) THEN NaN
  ELSE IF IsFiniteNumber(a) THEN b
  ELSE IF IsFiniteNumber(b) THEN a
  ELSE IF a = b THEN a ELSE NaN

JSSub(a, b) == JSAdd(a, JSNeg(b))

JSMul(a, b) ==
  IF IsFiniteNumber(a) /\ IsFiniteNumber(b)
  THEN Num(a[1] * b[1], a[2] * b[2])
  ELSE IF JSisNaN(a) \/ JSisNaN(b) THEN NaN
  ELSE <<Sgn(a[1]) * Sgn(b[1]), 0>>

JSDiv(a, b) ==
  IF IsFiniteNumber(a) /\ IsFiniteNumber(b)
  THEN (IF b[1] = 0 THEN <<Sgn(a[1]), 0>> ELSE Num(a[1] * b[2], a[2] * b[1]))
  ELSE IF JSisNaN(a) \/ JSisNaN(b) THEN NaN
  ELSE IF ~IsFiniteNumber(a) /\ ~IsFiniteNumber(b) THEN NaN
  ELSE IF IsFiniteNumber(a) THEN Whole(0)
  ELSE <<Sgn(a[1]) * (IF b[1] < 0 THEN -1 ELSE 1), 0>>

JSLt(a, b) ==
  /\ ~JSisNaN(a)
  /\ ~JSisNaN(b)
  /\ IF ~IsFiniteNumber(a) /\ ~IsFiniteNumber(b)
     THEN a[1] < b[1]
     ELSE a[1] * b[2] < b[1] * a[2]

JSLe(a, b) == JSLt(a, b) \/ (~JSisNaN(a) /\ a = b)

JSGt(a, b) == JSLt(b, a)

MathFloor(a) == IF IsFiniteNumber(a) THEN Whole(a[1] \div a[2]) ELSE a

\* ToBoolean of undefined or a number
Truthy(a) == a # Undefined /\ a # NaN /\ a # Whole(0)

\* a value q + r * sqrt(3) with q, r numbers: Math.sqrt(3) is irrational, so
\* the lengths that use it are kept in this form
Surd(q, r) == [q |-> q, r |-> r]

SurdAdd(a, b) == Surd(JSAdd(a.q, b.q), JSAdd(a.r, b.r))

SurdScale(k, a) == Surd(JSMul(k, a.q), JSMul(k, a.r))

\* Math.sqrt(3)
Sqrt3 == Surd(Whole(0), Whole(1))

(***************************************************************************)
(* js/buttonSizes.js                                                       *)
(***************************************************************************)

BUTTON_SIZES ==
  [k \in {"1.25", "2.25"} |->
     IF k = "1.25"
     THEN [name |-> "1.25 inch", cutLineDiameter |-> Num(1772, 1000),
           contentGuideDiameter |-> Num(1156, 1000), layout |-> "undefined",
           maxRows |-> Whole(5)]
     ELSE [name |-> "2.25 inch", cutLineDiameter |-> Num(2625, 1000),
           contentGuideDiameter |-> Num(2063, 1000), layout |-> "hex",
           maxRows |-> Whole(4)]]

\* BUTTON_SIZES is an object literal, so a property it does not own is looked
\* up on Object.prototype
ObjectPrototypeKeys ==
  {"constructor", "toString", "toLocaleString", "valueOf", "hasOwnProperty",
   "isPrototypeOf", "propertyIsEnumerable", "__proto__"}

\* BUTTON_SIZES[key]: the own property, else the inherited one, else undefined
ButtonSizesGet(key) ==
  IF key \in DOMAIN BUTTON_SIZES THEN [found |-> "own", size |-> BUTTON_SIZES[key]]
  ELSE IF key \in ObjectPrototypeKeys THEN [found |-> "inherited", member |-> key]
  ELSE [found |-> "undefined"]

Return(v) == [kind |-> "return", value |-> v]

Throw(e) == [kind |-> "throw", error |-> e]

\* the lookup answering with the record of the size selected last
getButtonSize_LastSelected(key) ==
  LET size == ButtonSizesGet(IF key \in DOMAIN BUTTON_SIZES THEN currentSizeKey ELSE key)
  IN  IF size.found = "undefined"
      THEN Throw([message |-> "Unknown button size: ", key |-> key])
      ELSE Return(size)

getButtonSize(key) ==
  LET size == ButtonSizesGet(key)
  IN  IF size.found = "undefined"
      THEN Throw([message |-> "Unknown button size: ", key |-> key])
      ELSE Return(size)

(***************************************************************************)
(* js/printGenerator.js                                                    *)
(***************************************************************************)

US_LETTER ==
  [width |-> Num(85, 10), height |-> Whole(11), marginTop |-> Num(5, 10),
   marginRight |-> Num(5, 10), marginBottom |-> Num(5, 10),
   marginLeft |-> Num(5, 10)]

\* paperSize.width - paperSize.marginLeft - paperSize.marginRight
PrintableWidth(paperSize) ==
  JSSub(JSSub(paperSize.width, paperSize.marginLeft), paperSize.marginRight)

\* paperSize.height - paperSize.marginTop - paperSize.marginBottom
PrintableHeight(paperSize) ==
  JSSub(JSSub(paperSize.height, paperSize.marginTop), paperSize.marginBottom)

\* the row cap of calculateButtonsPerPage
CapRows(rows, maxRows) ==
  IF Truthy(maxRows) /\ JSGt(rows, maxRows) THEN maxRows ELSE rows

\* calculateButtonsPerPage with the cap applied to the columns as well
calculateButtonsPerPage_ColumnsCapped(buttonSize, paperSize) ==
  LET columns == CapRows(MathFloor(JSDiv(PrintableWidth(paperSize),
                                         buttonSize.cutLineDiameter)),
                         buttonSize.maxRows)
      rows == CapRows(MathFloor(JSDiv(PrintableHeight(paperSize),
                                      buttonSize.cutLineDiameter)),
                      buttonSize.maxRows)
  IN  [columns |-> columns, rows |-> rows, total |-> JSMul(columns, rows),
       layout |-> "undefined"]

\* calculateButtonsPerPage with the axes exchanged: columns from the printable
\* height, rows from the printable width
calculateButtonsPerPage_AxesSwapped(buttonSize, paperSize) ==
  LET columns == MathFloor(JSDiv(PrintableHeight(paperSize), buttonSize.cutLineDiameter))
      rows == CapRows(MathFloor(JSDiv(PrintableWidth(paperSize),
                                      buttonSize.cutLineDiameter)),
                      buttonSize.maxRows)
  IN  [columns |-> columns, rows |-> rows, total |-> JSMul(columns, rows),
       layout |-> "undefined"]

\* the total taken before the rows are capped
calculateButtonsPerPage_TotalUncapped(buttonSize, paperSize) ==
  LET printableWidth == PrintableWidth(paperSize)
      printableHeight == PrintableHeight(paperSize)
      columns == MathFloor(JSDiv(printableWidth, buttonSize.cutLineDiameter))
      uncapped == MathFloor(JSDiv(printableHeight, buttonSize.cutLineDiameter))
  IN  [columns |-> columns, rows |-> CapRows(uncapped, buttonSize.maxRows),
       total |-> JSMul(columns, uncapped), layout |-> "undefined"]

\* the object calculateButtonsPerPage returns has no layout property
calculateButtonsPerPage(buttonSize, paperSize) ==
  LET printableWidth == PrintableWidth(paperSize)
      printableHeight == PrintableHeight(paperSize)
      columns == MathFloor(JSDiv(printableWidth, buttonSize.cutLineDiameter))
      rows == CapRows(MathFloor(JSDiv(printableHeight, buttonSize.cutLineDiameter)),
                      buttonSize.maxRows)
  IN  [columns |-> columns, rows |-> rows, total |-> JSMul(columns, rows),
       layout |-> "undefined"]

\* GridX with the columns counted from the right
GridX_RightToLeft(paperSize, buttonSize, cellWidth, col) ==
  JSAdd(JSAdd(paperSize.marginLeft,
              JSSub(PrintableWidth(paperSize), JSMul(Whole(col + 1), cellWidth))),
        JSDiv(JSSub(cellWidth, buttonSize.cutLineDiameter), Whole(2)))

\* GridX without the left margin
GridX_NoMargin(paperSize, buttonSize, cellWidth, col) ==
  JSAdd(JSMul(Whole(col), cellWidth),
        JSDiv(JSSub(cellWidth, buttonSize.cutLineDiameter), Whole(2)))

\* GridX moved right by an inch while a calibration item is stored
GridX_WhenCalibrated(paperSize, buttonSize, cellWidth, col) ==
  JSAdd(JSAdd(JSAdd(paperSize.marginLeft, JSMul(Whole(col), cellWidth)),
              JSDiv(JSSub(cellWidth, buttonSize.cutLineDiameter), Whole(2))),
        IF localStorage["buttonMaker_calibration"].present THEN Whole(1) ELSE Whole(0))

\* x of the grid cell in column col
GridX(paperSize, buttonSize, cellWidth, col) ==
  JSAdd(JSAdd(paperSize.marginLeft, JSMul(Whole(col), cellWidth)),
        JSDiv(JSSub(cellWidth, buttonSize.cutLineDiameter), Whole(2)))

\* y of the grid cell in row row
GridY(paperSize, buttonSize, cellHeight, row) ==
  JSAdd(JSAdd(paperSize.marginTop, JSMul(Whole(row), cellHeight)),
        JSDiv(JSSub(cellHeight, buttonSize.cutLineDiameter), Whole(2)))

\* the column loop giving each cell an image state panned by its column
RECURSIVE GridColumns_PannedPerCell(_, _, _, _, _, _, _)
GridColumns_PannedPerCell(imageState, paperSize, grid, cellWidth, y, col, buttons) ==
  IF JSLt(Whole(col), grid.columns)
  THEN GridColumns_PannedPerCell(imageState, paperSize, grid, cellWidth, y, col + 1,
         Append(buttons,
           [x |-> GridX(paperSize, imageState.buttonSize, cellWidth, col),
            y |-> Surd(y, Whole(0)),
            imageState |-> [imageState EXCEPT !.offsetX = JSAdd(@, Whole(col))]]))
  ELSE buttons

\* for (let col = 0; col < grid.columns; col++) buttons.push({ x, y, imageState })
RECURSIVE GridColumns(_, _, _, _, _, _, _)
GridColumns(imageState, paperSize, grid, cellWidth, y, col, buttons) ==
  IF JSLt(Whole(col), grid.columns)
  THEN GridColumns(imageState, paperSize, grid, cellWidth, y, col + 1,
         Append(buttons,
           [x |-> GridX(paperSize, imageState.buttonSize, cellWidth, col),
            y |-> Surd(y, Whole(0)), imageState |-> imageState]))
  ELSE buttons

\* the row loop running while row <= grid.rows
RECURSIVE GridRows_Inclusive(_, _, _, _, _, _, _)
GridRows_Inclusive(imageState, paperSize, grid, cellWidth, cellHeight, row, buttons) ==
  IF JSLe(Whole(row), grid.rows)
  THEN GridRows_Inclusive(imageState, paperSize, grid, cellWidth, cellHeight, row + 1,
         GridColumns(imageState, paperSize, grid, cellWidth,
           GridY(paperSize, imageState.buttonSize, cellHeight, row), 0, buttons))
  ELSE buttons

\* for (let row = 0; row < grid.rows; row++)
RECURSIVE GridRows(_, _, _, _, _, _, _)
GridRows(imageState, paperSize, grid, cellWidth, cellHeight, row, buttons) ==
  IF JSLt(Whole(row), grid.rows)
  THEN GridRows(imageState, paperSize, grid, cellWidth, cellHeight, row + 1,
         GridColumns(imageState, paperSize, grid, cellWidth,
           GridY(paperSize, imageState.buttonSize, cellHeight, row), 0, buttons))
  ELSE buttons

\* the row counts with 2 and 3 exchanged
HexRowCount_Swapped(i) == IF i % 2 = 0 THEN 2 ELSE 3

\* rowCounts.push(i % 2 === 0 ? 3 : 2)
HexRowCount(i) == IF i % 2 = 0 THEN 3 ELSE 2

\* for (let i = 0; i < numRows; i++) rowCounts.push(...)
RECURSIVE HexRowCounts(_, _, _)
HexRowCounts(numRows, i, rowCounts) ==
  IF JSLt(Whole(i), numRows)
  THEN HexRowCounts(numRows, i + 1, Append(rowCounts, HexRowCount(i)))
  ELSE rowCounts

\* rowCounts.reduce((sum, n) => sum + n, 0)
RECURSIVE SumSeq(_)
SumSeq(s) == IF s = <<>> THEN 0 ELSE s[1] + SumSeq(Tail(s))

\* buttonSize.maxRows || 4
HexNumRows(buttonSize) ==
  IF Truthy(buttonSize.maxRows) THEN buttonSize.maxRows ELSE Whole(4)

\* centre-to-centre distance within a row: diameter + gap, gap = 0.2
HexStep(buttonSize) == JSAdd(buttonSize.cutLineDiameter, Num(2, 10))

\* the 3-button row centred between the left and right margins
HexStartX3_WithinMargins(buttonSize, paperSize) ==
  JSAdd(paperSize.marginLeft,
        JSDiv(JSSub(PrintableWidth(paperSize),
                    JSAdd(JSMul(Whole(2), HexStep(buttonSize)),
                          buttonSize.cutLineDiameter)),
              Whole(2)))

\* (paperSize.width - totalWidth) / 2 with totalWidth = 2 * step + diameter
HexStartX3(buttonSize, paperSize) ==
  JSDiv(JSSub(paperSize.width,
              JSAdd(JSMul(Whole(2), HexStep(buttonSize)), buttonSize.cutLineDiameter)),
        Whole(2))

\* the 2-button row offset by a whole step
HexStartX2_FullStep(buttonSize, paperSize) ==
  JSAdd(HexStartX3(buttonSize, paperSize), HexStep(buttonSize))

\* startX3 + step / 2
HexStartX2(buttonSize, paperSize) ==
  JSAdd(HexStartX3(buttonSize, paperSize), JSDiv(HexStep(buttonSize), Whole(2)))

\* the rows packed at half the hexagonal spacing
HexRowSpacing_Halved(buttonSize) ==
  SurdScale(JSDiv(HexStep(buttonSize), Whole(4)), Sqrt3)

\* step * Math.sqrt(3) / 2
HexRowSpacing(buttonSize) ==
  SurdScale(JSDiv(HexStep(buttonSize), Whole(2)), Sqrt3)

\* (paperSize.height - totalHeight) / 2
\* with totalHeight = (numRows - 1) * rowSpacing + diameter
HexStartY(buttonSize, paperSize) ==
  LET totalHeight ==
        SurdAdd(SurdScale(JSSub(HexNumRows(buttonSize), Whole(1)),
                          HexRowSpacing(buttonSize)),
                Surd(buttonSize.cutLineDiameter, Whole(0)))
  IN  SurdScale(Num(1, 2),
                SurdAdd(Surd(paperSize.height, Whole(0)),
                        SurdScale(Whole(-1), totalHeight)))

\* for (let col = 0; col < count; col++) buttons.push({ x, y, imageState })
RECURSIVE HexColumns(_, _, _, _, _, _, _)
HexColumns(imageState, baseX, step, y, count, col, buttons) ==
  IF col < count
  THEN HexColumns(imageState, baseX, step, y, count, col + 1,
         Append(buttons,
           [x |-> JSAdd(baseX, JSMul(Whole(col), step)), y |-> y,
            imageState |-> imageState]))
  ELSE buttons

\* for (let row = 0; row < numRows; row++)
RECURSIVE HexRows(_, _, _, _, _, _)
HexRows(imageState, paperSize, numRows, rowCounts, row, buttons) ==
  IF JSLt(Whole(row), numRows)
  THEN LET buttonSize == imageState.buttonSize
           count == rowCounts[row + 1]
           baseX == IF count = 3 THEN HexStartX3(buttonSize, paperSize)
                    ELSE HexStartX2(buttonSize, paperSize)
           y == SurdAdd(HexStartY(buttonSize, paperSize),
                        SurdScale(Whole(row), HexRowSpacing(buttonSize)))
       IN  HexRows(imageState, paperSize, numRows, rowCounts, row + 1,
             HexColumns(imageState, baseX, HexStep(buttonSize), y, count, 0, buttons))
  ELSE buttons

generateHexPrintLayout(imageState, paperSize) ==
  LET buttonSize == imageState.buttonSize
      numRows == HexNumRows(buttonSize)
      rowCounts == HexRowCounts(numRows, 0, <<>>)
      total == SumSeq(rowCounts)
      grid == [columns |-> Whole(3), rows |-> numRows, total |-> Whole(total),
               layout |-> "hex"]
  IN  [paperSize |-> paperSize, buttonSize |-> buttonSize, grid |-> grid,
       buttons |-> HexRows(imageState, paperSize, numRows, rowCounts, 0, <<>>)]

\* the grid layout with a descriptor tagged 'grid'
generateGridPrintLayout_Tagged(imageState, paperSize) ==
  LET buttonSize == imageState.buttonSize
      grid == [calculateButtonsPerPage(buttonSize, paperSize) EXCEPT !.layout = "grid"]
      cellWidth == JSDiv(PrintableWidth(paperSize), grid.columns)
      cellHeight == JSDiv(PrintableHeight(paperSize), grid.rows)
  IN  [paperSize |-> paperSize, buttonSize |-> buttonSize, grid |-> grid,
       buttons |-> GridRows(imageState, paperSize, grid, cellWidth, cellHeight,
                            0, <<>>)]

generateGridPrintLayout(imageState, paperSize) ==
  LET buttonSize == imageState.buttonSize
      grid == calculateButtonsPerPage(buttonSize, paperSize)
      cellWidth == JSDiv(PrintableWidth(paperSize), grid.columns)
      cellHeight == JSDiv(PrintableHeight(paperSize), grid.rows)
  IN  [paperSize |-> paperSize, buttonSize |-> buttonSize, grid |-> grid,
       buttons |-> GridRows(imageState, paperSize, grid, cellWidth, cellHeight,
                            0, <<>>)]

\* a controller that was given no button size holds null
NullButtonSize == [isNull |-> TRUE]

IsNull(obj) == "isNull" \in DOMAIN obj

\* reading buttonSize.layout of a null buttonSize throws a TypeError; nothing
\* else in the function throws (a division by zero yields Infinity or NaN)
generatePrintLayout(imageState, paperSize) ==
  IF IsNull(imageState.buttonSize)
  THEN Throw([message |-> "TypeError: Cannot read properties of null", key |-> "layout"])
  ELSE IF imageState.buttonSize.layout = "hex"
  THEN Return(generateHexPrintLayout(imageState, paperSize))
  ELSE Return(generateGridPrintLayout(imageState, paperSize))

(***************************************************************************)
(* JavaScript values, as far as JSON carries them, and strings as          *)
(* sequences of characters                                                 *)
(***************************************************************************)

JValue(t, n, s, b, fields) == [t |-> t, n |-> n, s |-> s, b |-> b, fields |-> fields]

JUndefined == JValue("undefined", NaN, <<>>, FALSE, <<>>)

JNull == JValue("null", NaN, <<>>, FALSE, <<>>)

JBoolean(b) == JValue("boolean", NaN, <<>>, b, <<>>)

JNumber(q) == JValue("number", q, <<>>, FALSE, <<>>)

JString(chars) == JValue("string", NaN, chars, FALSE, <<>>)

\* an object: its properties in insertion order, each [key, value]
JObject(fields) == JValue("object", NaN, <<>>, FALSE, fields)

Property(key, value) == [key |-> key, value |-> value]

\* obj.key of a value that is not null or undefined
GetProperty(obj, key) ==
  IF \E i \in DOMAIN obj.fields : obj.fields[i].key = key
  THEN obj.fields[CHOOSE i \in DOMAIN obj.fields : obj.fields[i].key = key].value
  ELSE JUndefined

WhiteSpace == {" "}

Digits == {"0", "1", "2", "3", "4", "5", "6", "7", "8", "9"}

DigitValue(c) ==
  CASE c = "0" -> 0 [] c = "1" -> 1 [] c = "2" -> 2 [] c = "3" -> 3 [] c = "4" -> 4
    [] c = "5" -> 5 [] c = "6" -> 6 [] c = "7" -> 7 [] c = "8" -> 8 [] c = "9" -> 9

\* String.prototype.trim
RECURSIVE TrimStart(_)
TrimStart(chars) ==
  IF chars # <<>> /\ Head(chars) \in WhiteSpace THEN TrimStart(Tail(chars)) ELSE chars

RECURSIVE TrimEnd(_)
TrimEnd(chars) ==
  IF chars # <<>> /\ chars[Len(chars)] \in WhiteSpace
  THEN TrimEnd(SubSeq(chars, 1, Len(chars) - 1))
  ELSE chars

Trim(chars) == TrimEnd(TrimStart(chars))

\* the longest run of digits of chars from position i on: [value, count, next]
RECURSIVE ScanDigits(_, _, _, _)
ScanDigits(chars, i, value, count) ==
  IF i <= Len(chars) /\ chars[i] \in Digits
  THEN ScanDigits(chars, i + 1, 10 * value + DigitValue(chars[i]), count + 1)
  ELSE [value |-> value, count |-> count, next |-> i]

RECURSIVE Pow10(_)
Pow10(k) == IF k = 0 THEN 1 ELSE 10 * Pow10(k - 1)

InfinityChars == <<"I", "n", "f", "i", "n", "i", "t", "y">>

\* the longest prefix of chars that is a decimal literal (sign, digits, a point
\* and digits, or Infinity; exponents are not modelled): [number, next], with
\* number NaN when there is none
ScanDecimalLiteral(chars) ==
  LET signed == chars # <<>> /\ chars[1] \in {"+", "-"}
      sign == IF chars # <<>> /\ chars[1] = "-" THEN -1 ELSE 1
      start == IF signed THEN 2 ELSE 1
      whole == ScanDigits(chars, start, 0, 0)
      point == whole.next <= Len(chars) /\ chars[whole.next] = "."
      frac == IF point THEN ScanDigits(chars, whole.next + 1, 0, 0)
              ELSE [value |-> 0, count |-> 0, next |-> whole.next]
  IN  IF Len(chars) >= start + 7 /\ SubSeq(chars, start, start + 7) = InfinityChars
      THEN [number |-> <<sign, 0>>, next |-> start + 8]
      ELSE IF whole.count = 0 /\ frac.count = 0
      THEN [number |-> NaN, next |-> 1]
      ELSE [number |-> Num(sign * (whole.value * Pow10(frac.count) + frac.value),
                           Pow10(frac.count)),
            next |-> frac.next]

\* parseFloat(string)
parseFloat(chars) == ScanDecimalLiteral(TrimStart(chars)).number

\* Number(string): the whole trimmed string must be a numeric literal; the
\* empty string is 0
StringToNumber(chars) ==
  LET t == Trim(chars)
      lit == ScanDecimalLiteral(t)
  IN  IF t = <<>> THEN Whole(0)
      ELSE IF lit.number # NaN /\ lit.next = Len(t) + 1 THEN lit.number
      ELSE IF lit.number = NaN /\ t = InfinityChars THEN Infinity
      ELSE NaN

\* ToNumber
ToNumber(v) ==
  CASE v.t = "number" -> v.n
    [] v.t = "string" -> StringToNumber(v.s)
    [] v.t = "boolean" -> IF v.b THEN Whole(1) ELSE Whole(0)
    [] v.t = "null" -> Whole(0)
    [] OTHER -> NaN

\* ToBoolean
ToBoolean(v) ==
  CASE v.t = "number" -> Truthy(v.n)
    [] v.t = "string" -> v.s # <<>>
    [] v.t = "boolean" -> v.b
    [] v.t = "object" -> TRUE
    [] OTHER -> FALSE

\* the global isFinite, which converts its argument to a number first
isFinite(v) == IsFiniteNumber(ToNumber(v))

RECURSIVE DigitCount(_)
DigitCount(n) == IF n < 10 THEN 1 ELSE 1 + DigitCount(n \div 10)

\* the number of decimal places of r/d, at most 17
RECURSIVE FractionDigits(_, _, _)
FractionDigits(r, d, k) ==
  IF r = 0 \/ k >= 17 THEN k ELSE FractionDigits((10 * r) % d, d, k + 1)

\* the length of the decimal text of a finite number
NumberTextLen(q) ==
  LET f == FractionDigits(Abs(q[1]) % q[2], q[2], 0)
  IN  (IF q[1] < 0 THEN 1 ELSE 0) + DigitCount(Abs(q[1]) \div q[2])
        + (IF f = 0 THEN 0 ELSE 1 + f)

KeyLen(key) ==
  CASE key = "expectedInches" -> 14 [] key = "measuredInches" -> 14
    [] key = "scaleFactor" -> 11 [] key = "printerName" -> 11
    [] key = "paperSize" -> 9 [] key = "scale" -> 5 [] key = "margins" -> 7
    [] key = "notes" -> 5
    [] key = "buttonMaker_printerSettings" -> 27
    [] key = "buttonMaker_calibration" -> 23
    [] key = "__storage_test__" -> 16

\* what JSON.stringify writes for a property value: a number that is not
\* finite is written as null
JSONValue(v) == IF v.t = "number" /\ ~IsFiniteNumber(v.n) THEN JNull ELSE v

\* the properties JSON.stringify writes: those that are not undefined
RECURSIVE JSONFields(_)
JSONFields(fields) ==
  IF fields = <<>> THEN <<>>
  ELSE IF Head(fields).value.t = "undefined" THEN JSONFields(Tail(fields))
  ELSE <<Property(Head(fields).key, JSONValue(Head(fields).value))>>
         \o JSONFields(Tail(fields))

\* the length of the JSON text of a primitive
PrimitiveTextLen(v) ==
  CASE v.t = "number" -> NumberTextLen(v.n)
    [] v.t = "string" -> Len(v.s) + 2
    [] v.t = "boolean" -> IF v.b THEN 4 ELSE 5
    [] OTHER -> 4

\* the length of "key":value,"key":value...
RECURSIVE FieldsTextLen(_)
FieldsTextLen(fields) ==
  IF fields = <<>> THEN 0
  ELSE KeyLen(Head(fields).key) + 3 + PrimitiveTextLen(Head(fields).value)
         + (IF Len(fields) > 1 THEN 1 ELSE 0) + FieldsTextLen(Tail(fields))

\* a string held by localStorage: the JSON value it is the text of (when it
\* is JSON text at all) and its length
Text(ok, value, len) == [present |-> TRUE, ok |-> ok, value |-> value, len |-> len]

\* getItem's null for a key that has no item
NoItem == [present |-> FALSE, ok |-> FALSE, value |-> JUndefined, len |-> 0]

\* JSON.stringify of an object of primitives, or of a primitive
JSONstringify(v) ==
  IF v.t = "object"
  THEN Text(TRUE, JObject(JSONFields(v.fields)), 2 + FieldsTextLen(JSONFields(v.fields)))
  ELSE Text(TRUE, JSONValue(v), PrimitiveTextLen(JSONValue(v)))

\* JSON.parse: the value, or a SyntaxError
JSONparse(text) ==
  IF text.ok THEN Return(text.value)
  ELSE Throw([message |-> "SyntaxError", key |-> "JSON.parse"])

(***************************************************************************)
(* window.localStorage: items by key, within a quota of characters         *)
(***************************************************************************)

STORAGE_KEY == "buttonMaker_printerSettings"

CALIBRATION_KEY == "buttonMaker_calibration"

StorageKeys == {STORAGE_KEY, CALIBRATION_KEY}

\* the characters an item takes
ItemSize(key, item) == IF item.present THEN KeyLen(key) + item.len ELSE 0

RECURSIVE UsedBy(_, _)
UsedBy(store, keys) ==
  IF keys = {} THEN 0
  ELSE LET k == CHOOSE k \in keys : TRUE
       IN  ItemSize(k, store[k]) + UsedBy(store, keys \ {k})

\* the characters the items of store take, the item of key `except` left out
Used(store, except) == UsedBy(store, DOMAIN store \ {except})

\* setItem throws a QuotaExceededError when the new item does not fit
CanSetItem(store, quota, key, text) ==
  Used(store, key) + ItemSize(key, text) <= quota

(***************************************************************************)
(* js/settingsManager.js                                                   *)
(***************************************************************************)

\* the item '__storage_test__' -> '1' is written and removed again, so the
\* store is left as it was
isStorageAvailable(store, quota) ==
  CanSetItem(store, quota, "__storage_test__", Text(FALSE, JUndefined, 1))

\* [saved, store]
savePrinterSettings(store, quota, settings) ==
  IF ~isStorageAvailable(store, quota) THEN [saved |-> FALSE, store |-> store]
  ELSE IF CanSetItem(store, quota, STORAGE_KEY, JSONstringify(settings))
  THEN [saved |-> TRUE, store |-> [store EXCEPT ![STORAGE_KEY] = JSONstringify(settings)]]
  ELSE [saved |-> FALSE, store |-> store]

\* the value stored under key, or null: the shared body of
\* loadPrinterSettings and loadCalibration
\* (the SyntaxError of JSON.parse is caught and null returned)
LoadItem(store, quota, key) ==
  IF ~isStorageAvailable(store, quota) THEN Return(JNull)
  ELSE LET raw == store[key]
       IN  IF ~raw.present \/ raw.len = 0 THEN Return(JNull)
           ELSE IF JSONparse(raw).kind = "throw" THEN Return(JNull)
           ELSE JSONparse(raw)

loadPrinterSettings(store, quota) == LoadItem(store, quota, STORAGE_KEY)

\* [saved, store]
saveCalibration(store, quota, calibration) ==
  IF ~isStorageAvailable(store, quota) THEN [saved |-> FALSE, store |-> store]
  ELSE IF CanSetItem(store, quota, CALIBRATION_KEY, JSONstringify(calibration))
  THEN [saved |-> TRUE,
        store |-> [store EXCEPT ![CALIBRATION_KEY] = JSONstringify(calibration)]]
  ELSE [saved |-> FALSE, store |-> store]

loadCalibration(store, quota) == LoadItem(store, quota, CALIBRATION_KEY)

\* [cleared, store]
clearCalibration(store, quota) ==
  IF ~isStorageAvailable(store, quota) THEN [cleared |-> FALSE, store |-> store]
  ELSE [cleared |-> TRUE, store |-> [store EXCEPT ![CALIBRATION_KEY] = NoItem]]

\* the factor with 0 where there is no record
getCalibrationFactor_NoRecordZero(store, quota) ==
  LET loaded == loadCalibration(store, quota)
      cal == loaded.value
  IN  IF loaded.kind = "throw" THEN loaded
      ELSE IF ~ToBoolean(cal) THEN Return(JNumber(Whole(0)))
      ELSE IF ~ToBoolean(GetProperty(cal, "scaleFactor")) THEN Return(JNumber(Whole(1)))
      ELSE IF ~isFinite(GetProperty(cal, "scaleFactor")) THEN Return(JNumber(Whole(1)))
      ELSE Return(GetProperty(cal, "scaleFactor"))

\* the value returned is a JavaScript value: the code returns cal.scaleFactor
\* as it is stored
getCalibrationFactor(store, quota) ==
  LET loaded == loadCalibration(store, quota)
      cal == loaded.value
  IN  IF loaded.kind = "throw" THEN loaded
      ELSE IF ~ToBoolean(cal) THEN Return(JNumber(Whole(1)))
      ELSE IF ~ToBoolean(GetProperty(cal, "scaleFactor")) THEN Return(JNumber(Whole(1)))
      ELSE IF ~isFinite(GetProperty(cal, "scaleFactor")) THEN Return(JNumber(Whole(1)))
      ELSE Return(GetProperty(cal, "scaleFactor"))

(***************************************************************************)
(* js/measurementConverter.js (in src/js/imageLoader.js)                   *)
(***************************************************************************)

PIXELS_PER_INCH == 96

inchesToPixels(inches) == JSMul(inches, Whole(PIXELS_PER_INCH))

pixelsToInches(pixels) == JSDiv(pixels, Whole(PIXELS_PER_INCH))

(***************************************************************************)
(* The conversions with the rounding of binary floating point.  A number   *)
(* is a binary64 in the code; here it has FloatPrecision significant bits  *)
(* and a bounded exponent, and every operation rounds its exact result to  *)
(* the nearest such number, ties to the even significand, and to Infinity  *)
(* beyond the largest.                                                     *)
(***************************************************************************)

\* significant bits of a number
FloatPrecision == 5

\* a number is m * 2^e with -2 * ExponentRange <= e <= ExponentRange
ExponentRange == 4

RECURSIVE Pow2(_)
Pow2(k) == IF k = 0 THEN 1 ELSE 2 * Pow2(k - 1)

\* q / 2^e
Scaled(q, e) ==
  IF e >= 0 THEN Num(q[1], q[2] * Pow2(e)) ELSE Num(q[1] * Pow2(-e), q[2])

\* the exponent of the unit in the last place of the positive number q: the
\* least e from the smallest on with q / 2^e < 2^FloatPrecision
RECURSIVE UlpExponent(_, _)
UlpExponent(q, e) ==
  IF JSLt(Scaled(q, e), Whole(Pow2(FloatPrecision))) THEN e
  ELSE UlpExponent(q, e + 1)

\* the integer nearest to the non-negative q, the even one of two
RoundHalfEven(q) ==
  LET fl == q[1] \div q[2]
      r == q[1] % q[2]
  IN  IF 2 * r < q[2] THEN fl
      ELSE IF 2 * r > q[2] THEN fl + 1
      ELSE IF fl % 2 = 0 THEN fl ELSE fl + 1

MaxFloat == Whole((Pow2(FloatPrecision) - 1) * Pow2(ExponentRange))

\* the number an operation with the exact result q returns
FloatRound(q) ==
  IF ~IsFiniteNumber(q) \/ q[1] = 0 THEN q
  ELSE LET a == <<Abs(q[1]), q[2]>>
           e == UlpExponent(a, -2 * ExponentRange)
           m == RoundHalfEven(Scaled(a, e))
           v == JSMul(Whole(m), Scaled(Whole(1), -e))
       IN  IF JSGt(v, MaxFloat) THEN <<Sgn(q[1]), 0>>
           ELSE <<Sgn(q[1]) * v[1], v[2]>>

\* inches * PIXELS_PER_INCH, rounded
inchesToPixelsRounded(inches) == FloatRound(inchesToPixels(inches))

\* the pixels taken for points of 1/72 in
pixelsToInchesRounded_Points(pixels) == FloatRound(JSDiv(pixels, Whole(72)))

\* pixels / PIXELS_PER_INCH, rounded
pixelsToInchesRounded(pixels) == FloatRound(pixelsToInches(pixels))

(***************************************************************************)
(* Number to string                                                        *)
(***************************************************************************)

DigitChar(k) == CHOOSE c \in Digits : DigitValue(c) = k

RECURSIVE WholeChars(_)
WholeChars(n) ==
  IF n < 10 THEN <<DigitChar(n)>> ELSE WholeChars(n \div 10) \o <<DigitChar(n % 10)>>

RECURSIVE FractionChars(_, _, _)
FractionChars(r, d, k) ==
  IF r = 0 \/ k >= 17 THEN <<>>
  ELSE <<DigitChar((10 * r) \div d)>> \o FractionChars((10 * r) % d, d, k + 1)

\* String(number), for the numbers whose decimal text is short enough to be
\* written without an exponent
NumberToChars(q) ==
  IF q = NaN THEN <<"N", "a", "N">>
  ELSE IF ~IsFiniteNumber(q)
  THEN (IF q[1] < 0 THEN <<"-">> ELSE <<>>) \o InfinityChars
  ELSE LET f == FractionChars(Abs(q[1]) % q[2], q[2], 0)
       IN  (IF q[1] < 0 THEN <<"-">> ELSE <<>>) \o WholeChars(Abs(q[1]) \div q[2])
             \o (IF f = <<>> THEN <<>> ELSE <<".">> \o f)

\* ToString of a primitive
ToChars(v) ==
  CASE v.t = "number" -> NumberToChars(v.n)
    [] v.t = "string" -> v.s
    [] v.t = "boolean" -> IF v.b THEN <<"t", "r", "u", "e">> ELSE <<"f", "a", "l", "s", "e">>
    [] v.t = "null" -> <<"n", "u", "l", "l">>
    [] OTHER -> <<"u", "n", "d", "e", "f", "i", "n", "e", "d">>

(***************************************************************************)
(* js/canvasController.js                                                  *)
(***************************************************************************)

NoImage == [isNull |-> TRUE]

\* new CanvasController(canvas)
NewCanvasController ==
  [image |-> NoImage, scale |-> Whole(1), offsetX |-> Whole(0), offsetY |-> Whole(0),
   buttonSize |-> NullButtonSize, mode |-> "resize", dragging |-> FALSE,
   lastPointer |-> [x |-> 0, y |-> 0]]

\* Math.min and Math.max of two numbers: NaN when either is NaN
MathMin(a, b) == IF JSisNaN(a) \/ JSisNaN(b) THEN NaN ELSE IF JSLt(b, a) THEN b ELSE a

MathMax(a, b) == IF JSisNaN(a) \/ JSisNaN(b) THEN NaN ELSE IF JSGt(b, a) THEN b ELSE a

\* Math.round
MathRound(a) == MathFloor(JSAdd(a, Num(1, 2)))

\* CanvasController._resetTransform
ResetTransform(c) ==
  IF IsNull(c.image) \/ IsNull(c.buttonSize)
  THEN [c EXCEPT !.scale = Whole(1), !.offsetX = Whole(0), !.offsetY = Whole(0)]
  ELSE [c EXCEPT
          !.scale = JSDiv(inchesToPixels(c.buttonSize.cutLineDiameter),
                          MathMin(Whole(c.image.naturalWidth),
                                  Whole(c.image.naturalHeight))),
          !.offsetX = Whole(0), !.offsetY = Whole(0)]

\* CanvasController.setImage (the canvas itself is not modelled)
SetImage(c, image) == ResetTransform([c EXCEPT !.image = image])

\* CanvasController.setButtonSize with the transform reset as setImage resets it
SetButtonSize_ResetsTransform(c, size) == ResetTransform([c EXCEPT !.buttonSize = size])

\* CanvasController.setButtonSize
SetButtonSize(c, size) == [c EXCEPT !.buttonSize = size]

\* CanvasController.scaleImage: `if (scaleFactor <= 0) return;` lets NaN through
ScaleImage(c, scaleFactor) ==
  IF JSLe(scaleFactor, Whole(0)) THEN c ELSE [c EXCEPT !.scale = scaleFactor]

\* CanvasController.panImage
PanImage(c, dx, dy) ==
  [c EXCEPT !.offsetX = JSAdd(c.offsetX, dx), !.offsetY = JSAdd(c.offsetY, dy)]

\* CanvasController.setMode
SetMode(c, mode) == [c EXCEPT !.mode = mode]

\* CanvasController._onPointerDown
OnPointerDown(c, e) ==
  IF c.mode = "preview" THEN c
  ELSE [c EXCEPT !.dragging = TRUE, !.lastPointer = [x |-> e.clientX, y |-> e.clientY]]

\* CanvasController._onPointerMove
OnPointerMove(c, e) ==
  IF c.mode = "preview" \/ ~c.dragging THEN c
  ELSE PanImage([c EXCEPT !.lastPointer = [x |-> e.clientX, y |-> e.clientY]],
                Whole(e.clientX - c.lastPointer.x), Whole(e.clientY - c.lastPointer.y))

\* CanvasController._onPointerUp
OnPointerUp(c) == [c EXCEPT !.dragging = FALSE]

\* CanvasController._onWheel, for a controller whose onScaleChange is not set
OnWheel(c, e) ==
  IF c.mode = "preview" THEN c
  ELSE LET delta == IF e.deltaY > 0 THEN Num(-5, 100) ELSE Num(5, 100)
           newScale == MathMax(Num(5, 100), JSAdd(c.scale, JSMul(delta, c.scale)))
       IN  ScaleImage(c, newScale)

\* CanvasController.getImageState
GetImageState(c) ==
  [image |-> c.image, scale |-> c.scale, offsetX |-> c.offsetX, offsetY |-> c.offsetY,
   buttonSize |-> c.buttonSize]

(***************************************************************************)
(* js/printGenerator.js: rendering                                         *)
(***************************************************************************)

\* the cell with its top left uncorrected
PrintCell_TopUncalibrated(layout, btn, cal) ==
  LET cutDiameterIn == JSMul(layout.buttonSize.cutLineDiameter, cal)
      sizePx == inchesToPixels(cutDiameterIn)
      drawW == JSMul(Whole(btn.imageState.image.naturalWidth), btn.imageState.scale)
      drawH == JSMul(Whole(btn.imageState.image.naturalHeight), btn.imageState.scale)
  IN  [left |-> JSMul(btn.x, cal), top |-> btn.y,
       width |-> cutDiameterIn, height |-> cutDiameterIn,
       canvasSize |-> sizePx,
       cutRadiusPx |-> inchesToPixels(JSDiv(cutDiameterIn, Whole(2))),
       contentRadiusPx |->
         inchesToPixels(JSDiv(JSMul(layout.buttonSize.contentGuideDiameter, cal), Whole(2))),
       image |-> btn.imageState.image,
       imgX |-> JSAdd(JSSub(JSDiv(sizePx, Whole(2)), JSDiv(drawW, Whole(2))),
                      btn.imageState.offsetX),
       imgY |-> JSAdd(JSSub(JSDiv(sizePx, Whole(2)), JSDiv(drawH, Whole(2))),
                      btn.imageState.offsetY),
       drawW |-> drawW, drawH |-> drawH]

\* the cell with the image drawn at the calibrated scale and offsets
PrintCell_ImageCalibrated(layout, btn, cal) ==
  LET cutDiameterIn == JSMul(layout.buttonSize.cutLineDiameter, cal)
      sizePx == inchesToPixels(cutDiameterIn)
      drawW == JSMul(JSMul(Whole(btn.imageState.image.naturalWidth),
                           btn.imageState.scale), cal)
      drawH == JSMul(JSMul(Whole(btn.imageState.image.naturalHeight),
                           btn.imageState.scale), cal)
  IN  [left |-> JSMul(btn.x, cal), top |-> SurdScale(cal, btn.y),
       width |-> cutDiameterIn, height |-> cutDiameterIn,
       canvasSize |-> sizePx,
       cutRadiusPx |-> inchesToPixels(JSDiv(cutDiameterIn, Whole(2))),
       contentRadiusPx |->
         inchesToPixels(JSDiv(JSMul(layout.buttonSize.contentGuideDiameter, cal), Whole(2))),
       image |-> btn.imageState.image,
       imgX |-> JSAdd(JSSub(JSDiv(sizePx, Whole(2)), JSDiv(drawW, Whole(2))),
                      JSMul(btn.imageState.offsetX, cal)),
       imgY |-> JSAdd(JSSub(JSDiv(sizePx, Whole(2)), JSDiv(drawH, Whole(2))),
                      JSMul(btn.imageState.offsetY, cal)),
       drawW |-> drawW, drawH |-> drawH]

\* the cell renderPrintLayout makes for one button, with the calibration
\* factor cal (converted to a number by the multiplications)
PrintCell(layout, btn, cal) ==
  LET cutDiameterIn == JSMul(layout.buttonSize.cutLineDiameter, cal)
      cutRadiusIn == JSDiv(cutDiameterIn, Whole(2))
      contentRadiusIn == JSDiv(JSMul(layout.buttonSize.contentGuideDiameter, cal), Whole(2))
      sizePx == inchesToPixels(cutDiameterIn)
      cx == JSDiv(sizePx, Whole(2))
      cy == JSDiv(sizePx, Whole(2))
      drawW == JSMul(Whole(btn.imageState.image.naturalWidth), btn.imageState.scale)
      drawH == JSMul(Whole(btn.imageState.image.naturalHeight), btn.imageState.scale)
  IN  [left |-> JSMul(btn.x, cal), top |-> SurdScale(cal, btn.y),
       width |-> cutDiameterIn, height |-> cutDiameterIn,
       canvasSize |-> sizePx,
       cutRadiusPx |-> inchesToPixels(cutRadiusIn),
       contentRadiusPx |-> inchesToPixels(contentRadiusIn),
       image |-> btn.imageState.image,
       imgX |-> JSAdd(JSSub(cx, JSDiv(drawW, Whole(2))), btn.imageState.offsetX),
       imgY |-> JSAdd(JSSub(cy, JSDiv(drawH, Whole(2))), btn.imageState.offsetY),
       drawW |-> drawW, drawH |-> drawH]

\* the content of the container after renderPrintLayout(layout, container);
\* getCalibrationFactor() is read once, before the buttons are rendered
renderPrintLayout(layout, store, quota) ==
  CHOOSE container \in
    { [kind |-> "buttons", cal |-> cal,
       cells |-> [i \in DOMAIN layout.buttons |->
                    PrintCell(layout, layout.buttons[i], cal)]] :
        cal \in {ToNumber(getCalibrationFactor(store, quota).value)} } : TRUE

\* the content of the container after renderTestSheet(container): horizontal
\* lines of 1..6 in, vertical lines of 1..3 in and a 2 in square
renderTestSheet ==
  [kind |-> "testSheet", cal |-> Whole(1), cells |-> <<>>]

EmptyContainer == [kind |-> "empty", cal |-> Whole(1), cells |-> <<>>]

(***************************************************************************)
(* js/imageLoader.js                                                       *)
(***************************************************************************)

SUPPORTED_FORMATS == {"image/jpeg", "image/png", "image/gif", "image/webp"}

validateImageFile(file) == file.type \in SUPPORTED_FORMATS

\* loadImage without the check of the natural size in img.onload
loadImage_AcceptsEmpty(file) ==
  IF ~validateImageFile(file) THEN Throw([message |-> "Unsupported image format", key |-> file.type])
  ELSE IF file.fate = "readError"
  THEN Throw([message |-> "Failed to read the file. Please try again.", key |-> file.name])
  ELSE IF file.fate = "decodeError"
  THEN Throw([message |-> "Failed to decode the image. The file may be corrupted.",
              key |-> file.name])
  ELSE Return([name |-> file.name, naturalWidth |-> file.naturalWidth,
               naturalHeight |-> file.naturalHeight])

\* how the promise of loadImage(file) settles: file.fate says what reading and
\* decoding the file come to
loadImage(file) ==
  IF ~validateImageFile(file) THEN Throw([message |-> "Unsupported image format", key |-> file.type])
  ELSE IF file.fate = "readError"
  THEN Throw([message |-> "Failed to read the file. Please try again.", key |-> file.name])
  ELSE IF file.fate = "decodeError"
  THEN Throw([message |-> "Failed to decode the image. The file may be corrupted.",
              key |-> file.name])
  ELSE IF file.naturalWidth = 0 \/ file.naturalHeight = 0
  THEN Throw([message |-> "Image appears to be corrupted or empty.", key |-> file.name])
  ELSE Return([name |-> file.name, naturalWidth |-> file.naturalWidth,
               naturalHeight |-> file.naturalHeight])

(***************************************************************************)
(* js/app.js                                                               *)
(***************************************************************************)

\* loads that may be pending at once
MaxPendingLoads == 1

StatusHidden == [hidden |-> TRUE, type |-> "", message |-> "", cal |-> JNull]

\* showCalibrationAlert(msg, type)
CalibrationAlert(msg, type) ==
  [hidden |-> FALSE, type |-> type, message |-> msg, cal |-> JNull]

\* showCalibrationStatus(cal): cal.scaleFactor.toFixed is called, which throws
\* a TypeError unless cal.scaleFactor is a number
ShowCalibrationStatusThrows(cal) == GetProperty(cal, "scaleFactor").t # "number"

CalibrationStatusOf(cal) ==
  [hidden |-> FALSE, type |-> "success", message |-> "Calibration active", cal |-> cal]

\* computeBaseScale
computeBaseScale(c) ==
  IF IsNull(c.image) \/ IsNull(c.buttonSize) THEN Whole(1)
  ELSE JSDiv(JSMul(c.buttonSize.cutLineDiameter, Whole(PIXELS_PER_INCH)),
             MathMin(Whole(c.image.naturalWidth), Whole(c.image.naturalHeight)))

\* the slider value syncSlider leaves
syncSlider(c, slider) ==
  LET baseScale == computeBaseScale(c)
      pct == MathRound(JSMul(JSDiv(c.scale, baseScale), Whole(100)))
  IN  IF JSLe(baseScale, Whole(0)) THEN slider
      ELSE MathMax(Whole(10), MathMin(Whole(500), pct))

\* the calibration record handleSaveCalibration builds
CalibrationRecord(expected, measured) ==
  JObject(<<Property("expectedInches", JNumber(expected)),
            Property("measuredInches", JNumber(measured)),
            Property("scaleFactor", JNumber(JSDiv(expected, measured)))>>)

\* the settings object handleSaveSettings builds
SettingsRecord(printerName, notes) ==
  JObject(<<Property("printerName", JString(Trim(printerName))),
            Property("paperSize", JString(<<"U", "S", " ", "L", "e", "t", "t", "e", "r">>)),
            Property("scale", JNumber(Whole(100))),
            Property("margins", JString(<<"D", "e", "f", "a", "u", "l", "t">>)),
            Property("notes", JString(Trim(notes)))>>)

\* the texts the user types into #calibration-measured
MeasurementTexts ==
  { <<>>, <<"0">>, <<"-", "1">>, <<"a", "b", "c">>, InfinityChars,
    <<" ", "6", ".", "2", "5", " ">>, <<"5">> }

\* what the user types into #printer-name and #printer-notes
SettingsForms == { [printerName |-> <<"x", " ">>, notes |-> <<>>] }

\* the file the user picks
TestFiles ==
  { [name |-> "a.png", type |-> "image/png", fate |-> "ok",
     naturalWidth |-> 400, naturalHeight |-> 300] }

\* what localStorage holds under CALIBRATION_KEY when the page is opened
StoredScaleFactors ==
  { JUndefined, JNull, JNumber(Whole(0)), JNumber(Whole(2)), JNumber(Whole(-1)),
    JBoolean(TRUE), JString(<<" ">>), JString(<<"2">>), JString(<<"a", "b", "c">>) }

\* no item, the empty string, text that is no JSON, JSON that is no record,
\* a record of this program, and records with a scaleFactor of any kind
StoredCalibrationItems ==
  { NoItem, Text(FALSE, JUndefined, 0), Text(FALSE, JUndefined, 5),
    JSONstringify(JNull), JSONstringify(JNumber(Whole(5))),
    JSONstringify(CalibrationRecord(Whole(6), Num(625, 100))) } \cup
  { JSONstringify(JObject(<<Property("scaleFactor", f)>>)) : f \in StoredScaleFactors }

\* the items the application is started with: none, a record it saved
\* earlier, text that is no JSON, and a record without a numeric scaleFactor
InitialCalibrationItems ==
  { NoItem, JSONstringify(CalibrationRecord(Whole(6), Num(625, 100))),
    Text(FALSE, JUndefined, 5),
    JSONstringify(JObject(<<Property("scaleFactor", JString(<<" ">>))>>)) }

InitialSettingsItems ==
  { NoItem, JSONstringify(SettingsRecord(<<"x">>, <<>>)) }

\* the characters localStorage takes: none (storage is unavailable), or room
\* for both items but not for the probe of isStorageAvailable besides them
Quotas == {0, 200}

Init ==
  /\ app = "loading"
  /\ localStorage \in
       { [k \in StorageKeys |-> IF k = STORAGE_KEY THEN st ELSE c] :
           st \in InitialSettingsItems, c \in InitialCalibrationItems }
  /\ storageQuota \in {q \in Quotas : Used(localStorage, "") <= q}
  /\ storageWarning = FALSE
  /\ calibrationMeasuredInput = <<>>
  /\ calibrationStatus = StatusHidden
  /\ settingsForm = [printerName |-> <<>>, notes |-> <<>>]
  /\ saveSettingsBtn = "Save Settings"
  /\ controller = [isNull |-> TRUE]
  /\ currentSizeKey = "1.25"
  /\ scaleSlider = Whole(100)
  /\ loading = <<>>
  /\ fileLabelText = "Choose an image"
  /\ imageError = [hidden |-> TRUE, text |-> ""]
  /\ printLayout = EmptyContainer
  /\ invocation = [fn |-> "none"]
  /\ outcome = [kind |-> "none"]

\* restoreSettings: the form after it
restoreSettings(form, store, quota) ==
  LET settings == loadPrinterSettings(store, quota).value
      printerName == GetProperty(settings, "printerName")
      notes == GetProperty(settings, "notes")
  IN  IF ~ToBoolean(settings) THEN form
      ELSE [printerName |-> IF ToBoolean(printerName) THEN ToChars(printerName)
                            ELSE form.printerName,
            notes |-> IF ToBoolean(notes) THEN ToChars(notes) ELSE form.notes]

\* init(), on DOMContentLoaded.  restoreCalibration throws when the stored
\* record has no numeric scaleFactor, after showCalibrationStatus has unhidden
\* the status element and set its class; bindEvents() is then never reached
\* and no handler is bound
AppInit ==
  /\ app = "loading"
  /\ controller' = SetButtonSize(NewCanvasController, getButtonSize(currentSizeKey).value.size)
  /\ storageWarning' = ~isStorageAvailable(localStorage, storageQuota)
  /\ settingsForm' = restoreSettings(settingsForm, localStorage, storageQuota)
  /\ LET cal == loadCalibration(localStorage, storageQuota).value
     IN  IF ~ToBoolean(cal)
         THEN /\ app' = "running"
              /\ UNCHANGED <<calibrationMeasuredInput, calibrationStatus>>
         ELSE /\ calibrationMeasuredInput' =
                   IF ToBoolean(GetProperty(cal, "measuredInches"))
                   THEN ToChars(GetProperty(cal, "measuredInches"))
                   ELSE calibrationMeasuredInput
              /\ IF ShowCalibrationStatusThrows(cal)
                 THEN /\ app' = "crashed"
                      /\ calibrationStatus' =
                           [calibrationStatus EXCEPT !.hidden = FALSE, !.type = "success"]
                 ELSE app' = "running" /\ calibrationStatus' = CalibrationStatusOf(cal)
  /\ UNCHANGED <<localStorage, storageQuota, saveSettingsBtn, currentSizeKey, scaleSlider,
                 loading, fileLabelText, imageError, printLayout, pureVars>>

\* handleImageSelect up to its await, for the file of the input and at most
\* max pending loads: the error is hidden and loadImage(file) is pending
ImageSelected(file, max) ==
  /\ app = "running"
  /\ Len(loading) < max
  /\ imageError' = [hidden |-> TRUE, text |-> ""]
  /\ loading' = Append(loading, file)
  /\ UNCHANGED <<app, localStorage, storageQuota, storageWarning,
                 calibrationMeasuredInput, calibrationStatus, settingsForm,
                 saveSettingsBtn, controller, currentSizeKey, scaleSlider,
                 fileLabelText, printLayout>>

\* the user picks a file
HandleImageSelect ==
  \E file \in TestFiles :
    /\ ImageSelected(file, MaxPendingLoads)
    /\ UNCHANGED pureVars

\* handleImageSelect after its await: the promise of a pending load settles
ImageLoadSettles ==
  \E i \in DOMAIN loading :
    LET file == loading[i]
        settled == loadImage(file)
        c == SetImage(SetButtonSize(controller, getButtonSize(currentSizeKey).value.size),
                      settled.value)
    IN  /\ app = "running"
        /\ loading' = SubSeq(loading, 1, i - 1) \o SubSeq(loading, i + 1, Len(loading))
        /\ IF settled.kind = "return"
           THEN /\ fileLabelText' = file.name
                /\ controller' = c
                /\ scaleSlider' = syncSlider(c, scaleSlider)
                /\ UNCHANGED imageError
           ELSE /\ imageError' = [hidden |-> FALSE, text |-> settled.error.message]
                /\ UNCHANGED <<fileLabelText, controller, scaleSlider>>
        /\ UNCHANGED <<app, localStorage, storageQuota, storageWarning,
                       calibrationMeasuredInput, calibrationStatus, settingsForm,
                       saveSettingsBtn, currentSizeKey, printLayout, pureVars>>

\* handleSizeChange: the user picks a button-size radio
HandleSizeChange ==
  \E key \in DOMAIN BUTTON_SIZES :
    /\ app = "running"
    /\ currentSizeKey' = key
    /\ controller' = SetButtonSize(controller, getButtonSize(key).value.size)
    /\ UNCHANGED <<app, localStorage, storageQuota, storageWarning,
                   calibrationMeasuredInput, calibrationStatus, settingsForm,
                   saveSettingsBtn, scaleSlider, loading, fileLabelText, imageError,
                   printLayout, pureVars>>

\* handlePrint: the layout is generated and rendered into #print-layout
HandlePrint ==
  /\ app = "running"
  /\ ~IsNull(controller.image)
  /\ printLayout' =
       renderPrintLayout(generatePrintLayout(GetImageState(controller), US_LETTER).value,
                         localStorage, storageQuota)
  /\ UNCHANGED <<app, localStorage, storageQuota, storageWarning,
                 calibrationMeasuredInput, calibrationStatus, settingsForm,
                 saveSettingsBtn, controller, currentSizeKey, scaleSlider, loading,
                 fileLabelText, imageError, pureVars>>

\* handlePrintTestSheet
HandlePrintTestSheet ==
  /\ app = "running"
  /\ printLayout' = renderTestSheet
  /\ UNCHANGED <<app, localStorage, storageQuota, storageWarning,
                 calibrationMeasuredInput, calibrationStatus, settingsForm,
                 saveSettingsBtn, controller, currentSizeKey, scaleSlider, loading,
                 fileLabelText, imageError, pureVars>>

\* handleSaveSettings: the user fills in the form and clicks Save Settings
HandleSaveSettings ==
  \E form \in SettingsForms :
    LET r == savePrinterSettings(localStorage, storageQuota,
                                 SettingsRecord(form.printerName, form.notes))
    IN  /\ app = "running"
        /\ settingsForm' = form
        /\ localStorage' = r.store
        /\ saveSettingsBtn' = IF r.saved THEN "Saved!" ELSE saveSettingsBtn
        /\ UNCHANGED <<app, storageQuota, storageWarning, calibrationMeasuredInput,
                       calibrationStatus, controller, currentSizeKey, scaleSlider,
                       loading, fileLabelText, imageError, printLayout, pureVars>>

\* the timer handleSaveSettings sets, 1500 ms later
SaveSettingsTimeout ==
  /\ app = "running"
  /\ saveSettingsBtn = "Saved!"
  /\ saveSettingsBtn' = "Save Settings"
  /\ UNCHANGED <<app, localStorage, storageQuota, storageWarning,
                 calibrationMeasuredInput, calibrationStatus, settingsForm, controller,
                 currentSizeKey, scaleSlider, loading, fileLabelText, imageError,
                 printLayout, pureVars>>

\* the test without measured <= 0
RejectsMeasurement_NoSign(measured) ==
  ~Truthy(measured) \/ ~IsFiniteNumber(measured)

\* the test of handleSaveCalibration that rejects a measurement
RejectsMeasurement(measured) ==
  ~Truthy(measured) \/ JSLe(measured, Whole(0)) \/ ~IsFiniteNumber(measured)

\* handleSaveCalibration: the user types a measurement (or leaves the field as
\* it is) and clicks Save
HandleSaveCalibration ==
  \E typed \in MeasurementTexts \cup {calibrationMeasuredInput} :
    LET measured == parseFloat(Trim(typed))
        expected == Whole(6)
        calibration == CalibrationRecord(expected, measured)
        r == saveCalibration(localStorage, storageQuota, calibration)
    IN  /\ app = "running"
        /\ calibrationMeasuredInput' = typed
        /\ IF RejectsMeasurement(measured)
           THEN /\ calibrationStatus' =
                     CalibrationAlert("Please enter a valid measurement.", "warning")
                /\ UNCHANGED localStorage
           ELSE /\ localStorage' = r.store
                /\ calibrationStatus' =
                     IF r.saved THEN CalibrationStatusOf(calibration)
                     ELSE CalibrationAlert(
                            "Could not save calibration. Browser storage may be unavailable.",
                            "warning")
        /\ UNCHANGED <<app, storageQuota, storageWarning, settingsForm, saveSettingsBtn,
                       controller, currentSizeKey, scaleSlider, loading, fileLabelText,
                       imageError, printLayout, pureVars>>

\* handleClearCalibration
HandleClearCalibration ==
  /\ app = "running"
  /\ localStorage' = clearCalibration(localStorage, storageQuota).store
  /\ calibrationMeasuredInput' = <<>>
  /\ calibrationStatus' =
       CalibrationAlert("Calibration reset to default (no correction).", "info")
  /\ UNCHANGED <<app, storageQuota, storageWarning, settingsForm, saveSettingsBtn,
                 controller, currentSizeKey, scaleSlider, loading, fileLabelText,
                 imageError, printLayout, pureVars>>

Next ==
  \/ AppInit
  \/ HandleImageSelect
  \/ ImageLoadSettles
  \/ HandleSizeChange
  \/ HandlePrint
  \/ HandlePrintTestSheet
  \/ HandleSaveSettings
  \/ SaveSettingsTimeout
  \/ HandleSaveCalibration
  \/ HandleClearCalibration

Spec == Init /\ [][Next]_vars

(***************************************************************************)
(* Direct calls of the library functions, with arguments drawn from        *)
(* bounded sets                                                            *)
(***************************************************************************)

\* maxRows values tried: absent, and 1 .. MaxRowsCap
MaxRowsCap == 5

\* margins tried: 0, 1/2, ... MaxMarginHalves/2 inches
MaxMarginHalves == 2

TestKeys == DOMAIN BUTTON_SIZES \cup ObjectPrototypeKeys \cup {"bogus", "", "1.250", "3"}

TestDiameters ==
  {Whole(1), Num(3, 2), Num(1772, 1000), Num(5, 2), Num(2625, 1000), Whole(4),
   Whole(9), Whole(20)}

TestButtonSizes ==
  {BUTTON_SIZES[k] : k \in DOMAIN BUTTON_SIZES} \cup
  {[name |-> "test", cutLineDiameter |-> d,
    contentGuideDiameter |-> JSMul(Num(3, 4), d), layout |-> l, maxRows |-> m] :
     d \in TestDiameters, l \in {"undefined", "hex"},
     m \in {Undefined} \cup {Whole(k) : k \in 1..MaxRowsCap}} \cup
  {[name |-> "test", cutLineDiameter |-> Num(3, 2),
    contentGuideDiameter |-> Whole(1), layout |-> "grid", maxRows |-> Undefined]}

TestMargins == {Num(k, 2) : k \in 0..MaxMarginHalves}

TestPapers ==
  {US_LETTER} \cup
  {[width |-> w, height |-> h, marginTop |-> m1, marginRight |-> m2,
    marginBottom |-> m2, marginLeft |-> m1] :
     w \in {Num(85, 10), Whole(6), Num(3, 2)}, h \in {Whole(11), Whole(5)},
     m1 \in TestMargins, m2 \in TestMargins}

TestImage == [naturalWidth |-> 400, naturalHeight |-> 300]

TestImageStates ==
  {[image |-> TestImage, scale |-> Num(1, 2), offsetX |-> Whole(0),
    offsetY |-> Whole(0), buttonSize |-> b] : b \in TestButtonSizes \cup {NullButtonSize}}

InitPure ==
  /\ app = "loading"
  /\ localStorage = [k \in StorageKeys |-> NoItem]
  /\ storageQuota = 0
  /\ storageWarning = FALSE
  /\ calibrationMeasuredInput = <<>>
  /\ calibrationStatus = StatusHidden
  /\ settingsForm = [printerName |-> <<>>, notes |-> <<>>]
  /\ saveSettingsBtn = "Save Settings"
  /\ controller = [isNull |-> TRUE]
  /\ currentSizeKey = "1.25"
  /\ scaleSlider = Whole(100)
  /\ loading = <<>>
  /\ fileLabelText = "Choose an image"
  /\ imageError = [hidden |-> TRUE, text |-> ""]
  /\ printLayout = EmptyContainer
  /\ invocation = [fn |-> "none"]
  /\ outcome = [kind |-> "none"]

\* the functions are pure, so a behaviour makes one call
CallGetButtonSize ==
  \E key \in TestKeys :
    /\ invocation.fn = "none"
    /\ invocation' = [fn |-> "getButtonSize", key |-> key]
    /\ outcome' = getButtonSize(key)
    /\ UNCHANGED appVars

CallCalculateButtonsPerPage ==
  \E buttonSize \in TestButtonSizes, paperSize \in TestPapers :
    /\ invocation.fn = "none"
    /\ invocation' = [fn |-> "calculateButtonsPerPage", buttonSize |-> buttonSize,
                      paperSize |-> paperSize]
    /\ outcome' = Return(calculateButtonsPerPage(buttonSize, paperSize))
    /\ UNCHANGED appVars

CallGeneratePrintLayout ==
  \E imageState \in TestImageStates, paperSize \in TestPapers :
    /\ invocation.fn = "none"
    /\ invocation' = [fn |-> "generatePrintLayout", imageState |-> imageState,
                      paperSize |-> paperSize]
    /\ outcome' = generatePrintLayout(imageState, paperSize)
    /\ UNCHANGED appVars

\* getCalibrationFactor() reads localStorage: the store it finds is the
\* argument of the call
TestStores ==
  {[k \in StorageKeys |-> IF k = STORAGE_KEY THEN st ELSE c] :
     st \in InitialSettingsItems, c \in StoredCalibrationItems}

CallGetCalibrationFactor ==
  \E store \in TestStores, quota \in Quotas :
    /\ invocation.fn = "none"
    /\ Used(store, "") <= quota
    /\ invocation' = [fn |-> "getCalibrationFactor", store |-> store, quota |-> quota]
    /\ outcome' = getCalibrationFactor(store, quota)
    /\ UNCHANGED appVars

\* the image states rendered: the sizes of the catalog, zoomed and panned
RenderImageStates ==
  {[image |-> TestImage, scale |-> s, offsetX |-> ox, offsetY |-> oy,
    buttonSize |-> BUTTON_SIZES[k]] :
     k \in DOMAIN BUTTON_SIZES, s \in {Num(1, 2), Whole(2)},
     ox \in {Whole(0), Whole(-7)}, oy \in {Whole(0), Num(5, 2)}}

\* renderPrintLayout(layout, container) for the layout of an image state on
\* US Letter, with the store its getCalibrationFactor() finds
CallRenderPrintLayout ==
  \E imageState \in RenderImageStates, store \in TestStores, quota \in Quotas :
    /\ invocation.fn = "none"
    /\ Used(store, "") <= quota
    /\ invocation' = [fn |-> "renderPrintLayout",
                      layout |-> generatePrintLayout(imageState, US_LETTER).value,
                      store |-> store, quota |-> quota]
    /\ printLayout' = renderPrintLayout(invocation'.layout, store, quota)
    /\ outcome' = Return(JUndefined)
    /\ UNCHANGED <<app, localStorage, storageQuota, storageWarning,
                   calibrationMeasuredInput, calibrationStatus, settingsForm,
                   saveSettingsBtn, controller, currentSizeKey, scaleSlider, loading,
                   fileLabelText, imageError>>

\* the non-negative numbers: zero and m * 2^e for every significand and
\* exponent
TestFloats ==
  {Whole(0)} \cup
  {Scaled(Whole(m), -e) : m \in Pow2(FloatPrecision - 1)..(Pow2(FloatPrecision) - 1),
                          e \in (-2 * ExponentRange)..ExponentRange}

\* pixelsToInches(inchesToPixels(x))
CallUnitRoundTrip ==
  \E x \in TestFloats :
    /\ invocation.fn = "none"
    /\ invocation' = [fn |-> "pixelsToInches(inchesToPixels)", x |-> x,
                      pixels |-> inchesToPixelsRounded(x)]
    /\ outcome' = Return(pixelsToInchesRounded(invocation'.pixels))
    /\ UNCHANGED appVars

NextPure ==
  \/ CallUnitRoundTrip
  \/ CallGetButtonSize
  \/ CallCalculateButtonsPerPage
  \/ CallGeneratePrintLayout
  \/ CallGetCalibrationFactor
  \/ CallRenderPrintLayout

SpecPure == InitPure /\ [][NextPure]_vars

(***************************************************************************)
(* The exported functions called one after another, while the calibration  *)
(* item changes between the calls and between the buttons of a render pass *)
(* (localStorage is shared with the other documents of the origin)         *)
(***************************************************************************)

\* the calibration items that come and go: none, and the records saved for
\* the measurements 6.25 and 5
SessionCalibrationItems ==
  { NoItem, JSONstringify(CalibrationRecord(Whole(6), Num(625, 100))),
    JSONstringify(CalibrationRecord(Whole(6), Whole(5))) }

SessionImageStates ==
  {[image |-> TestImage, scale |-> Num(1, 2), offsetX |-> Whole(0),
    offsetY |-> Whole(0), buttonSize |-> BUTTON_SIZES[k]] : k \in DOMAIN BUTTON_SIZES}

InitCalls ==
  /\ app = "loading"
  /\ localStorage \in {[k \in StorageKeys |-> IF k = STORAGE_KEY THEN NoItem ELSE c] :
                          c \in SessionCalibrationItems}
  /\ storageQuota = 200
  /\ storageWarning = FALSE
  /\ calibrationMeasuredInput = <<>>
  /\ calibrationStatus = StatusHidden
  /\ settingsForm = [printerName |-> <<>>, notes |-> <<>>]
  /\ saveSettingsBtn = "Save Settings"
  /\ controller = [isNull |-> TRUE]
  /\ currentSizeKey = "1.25"
  /\ scaleSlider = Whole(100)
  /\ loading = <<>>
  /\ fileLabelText = "Choose an image"
  /\ imageError = [hidden |-> TRUE, text |-> ""]
  /\ printLayout = EmptyContainer
  /\ invocation = [fn |-> "none"]
  /\ outcome = [kind |-> "none"]

\* renderPrintLayout is inside its buttons.forEach
PassInProgress ==
  /\ invocation.fn = "renderPrintLayout"
  /\ invocation.next <= Len(invocation.layout.buttons)

\* generatePrintLayout(imageState, paperSize), called again and again
GenerateAgain ==
  \E imageState \in SessionImageStates, paperSize \in {US_LETTER} :
    /\ ~PassInProgress
    /\ invocation' = [fn |-> "generatePrintLayout", imageState |-> imageState,
                      paperSize |-> paperSize]
    /\ outcome' = generatePrintLayout(imageState, paperSize)
    /\ UNCHANGED appVars

\* saveCalibration or clearCalibration in another document of the origin
StorageChanges ==
  \E item \in SessionCalibrationItems :
    /\ item # localStorage[CALIBRATION_KEY]
    /\ localStorage' = [localStorage EXCEPT ![CALIBRATION_KEY] = item]
    /\ Used(localStorage', "") <= storageQuota
    /\ UNCHANGED <<app, storageQuota, storageWarning, calibrationMeasuredInput,
                   calibrationStatus, settingsForm, saveSettingsBtn, controller,
                   currentSizeKey, scaleSlider, loading, fileLabelText, imageError,
                   printLayout, pureVars>>

\* renderPrintLayout up to its loop: the container is emptied and
\* const cal = getCalibrationFactor() is read
RenderPassBegins ==
  \E imageState \in SessionImageStates :
    /\ ~PassInProgress
    /\ invocation' = [fn |-> "renderPrintLayout",
                      layout |-> generatePrintLayout(imageState, US_LETTER).value,
                      store |-> localStorage, quota |-> storageQuota,
                      cal |-> ToNumber(getCalibrationFactor(localStorage,
                                                            storageQuota).value),
                      next |-> 1]
    /\ printLayout' = [kind |-> "buttons", cal |-> invocation'.cal, cells |-> <<>>]
    /\ outcome' = [kind |-> "none"]
    /\ UNCHANGED <<app, localStorage, storageQuota, storageWarning,
                   calibrationMeasuredInput, calibrationStatus, settingsForm,
                   saveSettingsBtn, controller, currentSizeKey, scaleSlider, loading,
                   fileLabelText, imageError>>

\* the factor read anew for each button
PassFactor_Reread == ToNumber(getCalibrationFactor(localStorage, storageQuota).value)

\* the factor the loop body uses: the constant cal of the pass
PassFactor == invocation.cal

\* one turn of buttons.forEach: the cell of the next button is appended
RenderPassButton ==
  /\ PassInProgress
  /\ printLayout' =
       [printLayout EXCEPT !.cells =
          Append(@, PrintCell(invocation.layout,
                              invocation.layout.buttons[invocation.next], PassFactor))]
  /\ invocation' = [invocation EXCEPT !.next = @ + 1]
  /\ UNCHANGED <<app, localStorage, storageQuota, storageWarning,
                 calibrationMeasuredInput, calibrationStatus, settingsForm,
                 saveSettingsBtn, controller, currentSizeKey, scaleSlider, loading,
                 fileLabelText, imageError, outcome>>

NextCalls ==
  \/ GenerateAgain
  \/ StorageChanges
  \/ RenderPassBegins
  \/ RenderPassButton

SpecCalls == InitCalls /\ [][NextCalls]_vars

(***************************************************************************)
(* A CanvasController driven through its methods and its canvas events     *)
(***************************************************************************)

MaxPan == 2

MaxScaleDenominator == 20

\* the image of the application's test file, and an image element whose
\* natural size is zero
ControllerImages ==
  {TestImage, [name |-> "empty.png", naturalWidth |-> 0, naturalHeight |-> 0]}

ScaleArguments == {Whole(0), Whole(-1), Num(1, 20), Whole(2), NaN}

PointerEvents == {[clientX |-> 0, clientY |-> 0], [clientX |-> 2, clientY |-> 1]}

WheelEvents == {[deltaY |-> -100], [deltaY |-> 100]}

besideController ==
  <<app, localStorage, storageQuota, storageWarning, calibrationMeasuredInput,
    calibrationStatus, settingsForm, saveSettingsBtn, currentSizeKey, scaleSlider,
    loading, fileLabelText, imageError, printLayout, pureVars>>

WithinPan(c) ==
  /\ JSLe(c.offsetX, Whole(MaxPan)) /\ JSLe(Whole(-MaxPan), c.offsetX)
  /\ JSLe(c.offsetY, Whole(MaxPan)) /\ JSLe(Whole(-MaxPan), c.offsetY)

InitController ==
  /\ app = "loading"
  /\ localStorage = [k \in StorageKeys |-> NoItem]
  /\ storageQuota = 0
  /\ storageWarning = FALSE
  /\ calibrationMeasuredInput = <<>>
  /\ calibrationStatus = StatusHidden
  /\ settingsForm = [printerName |-> <<>>, notes |-> <<>>]
  /\ saveSettingsBtn = "Save Settings"
  /\ controller = NewCanvasController
  /\ currentSizeKey = "1.25"
  /\ scaleSlider = Whole(100)
  /\ loading = <<>>
  /\ fileLabelText = "Choose an image"
  /\ imageError = [hidden |-> TRUE, text |-> ""]
  /\ printLayout = EmptyContainer
  /\ invocation = [fn |-> "none"]
  /\ outcome = [kind |-> "none"]

CallSetImage ==
  \E image \in ControllerImages :
    /\ controller' = SetImage(controller, image)
    /\ UNCHANGED besideController

CallSetButtonSize ==
  \E key \in DOMAIN BUTTON_SIZES :
    /\ controller' = SetButtonSize(controller, BUTTON_SIZES[key])
    /\ UNCHANGED besideController

CallScaleImage ==
  \E scaleFactor \in ScaleArguments :
    /\ controller' = ScaleImage(controller, scaleFactor)
    /\ UNCHANGED besideController

CallPanImage ==
  \E dx \in {-1, 1}, dy \in {-1, 1} :
    /\ WithinPan(PanImage(controller, Whole(dx), Whole(dy)))
    /\ controller' = PanImage(controller, Whole(dx), Whole(dy))
    /\ UNCHANGED besideController

CallSetMode ==
  \E mode \in {"resize", "preview"} :
    /\ controller' = SetMode(controller, mode)
    /\ UNCHANGED besideController

PointerDown ==
  \E e \in PointerEvents :
    /\ controller' = OnPointerDown(controller, e)
    /\ UNCHANGED besideController

PointerMove ==
  \E e \in PointerEvents :
    /\ WithinPan(OnPointerMove(controller, e))
    /\ controller' = OnPointerMove(controller, e)
    /\ UNCHANGED besideController

PointerUp ==
  /\ controller' = OnPointerUp(controller)
  /\ UNCHANGED besideController

Wheel ==
  \E e \in WheelEvents :
    /\ controller.scale[2] <= MaxScaleDenominator
    /\ controller' = OnWheel(controller, e)
    /\ UNCHANGED besideController

NextController ==
  \/ CallSetImage
  \/ CallSetButtonSize
  \/ CallScaleImage
  \/ CallPanImage
  \/ CallSetMode
  \/ PointerDown
  \/ PointerMove
  \/ PointerUp
  \/ Wheel

SpecController == InitController /\ [][NextController]_vars

(***************************************************************************)
(* The application while image files are picked and their loads settle in  *)
(* any order                                                               *)
(***************************************************************************)

\* loads that may be pending at once while files are picked in a row
MaxRacingLoads == 2

\* two images that load, and a file for each way loadImage rejects
RacingFiles ==
  { [name |-> "a.png", type |-> "image/png", fate |-> "ok",
     naturalWidth |-> 400, naturalHeight |-> 300],
    [name |-> "b.png", type |-> "image/png", fate |-> "ok",
     naturalWidth |-> 300, naturalHeight |-> 500],
    [name |-> "notes.txt", type |-> "text/plain", fate |-> "ok",
     naturalWidth |-> 0, naturalHeight |-> 0],
    [name |-> "unread.png", type |-> "image/png", fate |-> "readError",
     naturalWidth |-> 0, naturalHeight |-> 0],
    [name |-> "broken.png", type |-> "image/png", fate |-> "decodeError",
     naturalWidth |-> 0, naturalHeight |-> 0],
    [name |-> "empty.png", type |-> "image/png", fate |-> "ok",
     naturalWidth |-> 0, naturalHeight |-> 400] }

SliderValues == {50, 200}

\* the change event of #image-input; invocation keeps the file of the input
PickFile ==
  \E file \in RacingFiles :
    /\ ImageSelected(file, MaxRacingLoads)
    /\ invocation' = [fn |-> "handleImageSelect", file |-> file]
    /\ UNCHANGED outcome

\* handleScaleChange: the user moves #scale-slider
HandleScaleChange ==
  \E pct \in SliderValues :
    /\ app = "running"
    /\ scaleSlider' = Whole(pct)
    /\ controller' =
         IF IsNull(controller.image) THEN controller
         ELSE ScaleImage(controller,
                         JSMul(computeBaseScale(controller), JSDiv(Whole(pct), Whole(100))))
    /\ UNCHANGED <<app, localStorage, storageQuota, storageWarning,
                   calibrationMeasuredInput, calibrationStatus, settingsForm,
                   saveSettingsBtn, currentSizeKey, loading, fileLabelText, imageError,
                   printLayout, pureVars>>

NextLoads ==
  \/ AppInit
  \/ PickFile
  \/ ImageLoadSettles
  \/ HandleSizeChange
  \/ HandleScaleChange

SpecLoads == InitPure /\ [][NextLoads]_vars

(***************************************************************************)
(* Properties of the library functions (under SpecPure)                    *)
(***************************************************************************)

\* the last call was generatePrintLayout for a button size that is not null
LayoutCalled ==
  /\ invocation.fn = "generatePrintLayout"
  /\ ~IsNull(invocation.imageState.buttonSize)

\* ... for a size of the hex strategy, or of the grid strategy
HexCalled == LayoutCalled /\ invocation.imageState.buttonSize.layout = "hex"

GridCalled == LayoutCalled /\ invocation.imageState.buttonSize.layout # "hex"

Returned == outcome.kind = "return"

\* C1: getButtonSize(key) fails with an error carrying the key for every key
\* that is not an entry of the catalog, names of Object.prototype included.
C1_UnknownKeyFails ==
  (invocation.fn = "getButtonSize" /\ invocation.key \notin {"1.25", "2.25"})
    => (outcome.kind = "throw" /\ outcome.error.key = invocation.key)

\* C2: for the 1.25" size (cut line 1.772, at most 5 rows) on US Letter with
\* 0.5 in margins, calculateButtonsPerPage returns 4 columns, 5 rows, total 20.
C2_LetterGrid ==
  ( /\ invocation.fn = "calculateButtonsPerPage"
    /\ invocation.buttonSize.cutLineDiameter = <<443, 250>>
    /\ invocation.buttonSize.maxRows = <<5, 1>>
    /\ invocation.paperSize =
         [width |-> <<17, 2>>, height |-> <<11, 1>>, marginTop |-> <<1, 2>>,
          marginRight |-> <<1, 2>>, marginBottom |-> <<1, 2>>, marginLeft |-> <<1, 2>>] )
    => ( /\ Returned
         /\ outcome.value.columns = <<4, 1>>
         /\ outcome.value.rows = <<5, 1>>
         /\ outcome.value.total = <<20, 1>> )

C2_Witness ==
  /\ invocation.fn = "calculateButtonsPerPage"
  /\ invocation.buttonSize = BUTTON_SIZES["1.25"]
  /\ invocation.paperSize = US_LETTER
  /\ outcome.value.total = <<20, 1>>

\* the printable area of the paper of the last call is positive
PositivePrintableArea ==
  LET p == invocation.paperSize
  IN  /\ JSGt(JSSub(JSSub(p.width, p.marginLeft), p.marginRight), Whole(0))
      /\ JSGt(JSSub(JSSub(p.height, p.marginTop), p.marginBottom), Whole(0))

ExpectedHexRows ==
  LET m == invocation.imageState.buttonSize.maxRows
  IN  IF m = Undefined THEN 4 ELSE m[1]

\* 3 buttons in the even rows, 2 in the odd ones
ExpectedRowCount(row) == IF row % 2 = 0 THEN 3 ELSE 2

\* the number of buttons in the rows before row
ExpectedRowStart(row) == 5 * (row \div 2) + (IF row % 2 = 1 THEN 3 ELSE 0)

\* the buttons of a row, in the order placed
RowButtons(buttons, row) ==
  [k \in 1..ExpectedRowCount(row) |-> buttons[ExpectedRowStart(row) + k]]

\* C4: a hex layout has numRows = maxRows rows (4 when maxRows is absent); row
\* i holds 3 buttons when i is even and 2 when odd; grid.total is the sum of
\* the row counts and the number of placed buttons.
C4_HexRowCounts ==
  (HexCalled /\ Returned) =>
    LET buttons == outcome.value.buttons
        n == ExpectedHexRows
    IN  /\ outcome.value.grid.rows = Whole(n)
        /\ Len(buttons) = ExpectedRowStart(n)
        /\ outcome.value.grid.total = Whole(Len(buttons))
        /\ \A row \in 0..(n - 1) :
             \A k \in 1..ExpectedRowCount(row) :
               RowButtons(buttons, row)[k].y = RowButtons(buttons, row)[1].y
        /\ \A r1, r2 \in 0..(n - 1) :
             r1 # r2 => RowButtons(buttons, r1)[1].y # RowButtons(buttons, r2)[1].y

\* the 2.25" size: rows 3, 2, 3, 2 and 10 buttons
C4_Witness ==
  /\ HexCalled /\ Returned
  /\ invocation.imageState.buttonSize = BUTTON_SIZES["2.25"]
  /\ Len(outcome.value.buttons) = 10
  /\ outcome.value.grid.total = Whole(10)
  /\ outcome.value.buttons[3].y = outcome.value.buttons[1].y
  /\ outcome.value.buttons[4].y # outcome.value.buttons[3].y
  /\ outcome.value.buttons[5].y = outcome.value.buttons[4].y
  /\ outcome.value.buttons[6].y # outcome.value.buttons[5].y

C6_DegenerateGridIsEmpty ==
  ( /\ GridCalled
    /\ LET grid == calculateButtonsPerPage(invocation.imageState.buttonSize,
                                           invocation.paperSize)
       IN  JSLe(grid.columns, Whole(0)) \/ JSLe(grid.rows, Whole(0)) )
    => (Returned /\ outcome.value.buttons = <<>>)

\* a cut line of 20 in on US Letter
C6_Witness ==
  /\ GridCalled /\ Returned
  /\ invocation.imageState.buttonSize.cutLineDiameter = Whole(20)
  /\ invocation.paperSize = US_LETTER
  /\ outcome.value.grid.columns = Whole(0)
  /\ outcome.value.buttons = <<>>

\* C7: for a size of either strategy whose cut line is larger than the
\* printable width or height, generatePrintLayout yields no buttons and no
\* error.
C7_TooLargeIsEmpty ==
  ( /\ LayoutCalled
    /\ LET p == invocation.paperSize
           d == invocation.imageState.buttonSize.cutLineDiameter
       IN  \/ JSGt(d, JSSub(JSSub(p.width, p.marginLeft), p.marginRight))
           \/ JSGt(d, JSSub(JSSub(p.height, p.marginTop), p.marginBottom)) )
    => (Returned /\ outcome.value.buttons = <<>>)

(***************************************************************************)
(* Properties of calibration                                               *)
(***************************************************************************)

\* a measurement text that is empty or not a number, zero, negative, or not
\* finite
InvalidMeasurementText(chars) ==
  LET m == parseFloat(Trim(chars))
  IN  \/ m = NaN
      \/ m = Whole(0)
      \/ JSLt(m, Whole(0))
      \/ m = Infinity
      \/ m = JSNeg(Infinity)

\* C8: when handleSaveCalibration reads an invalid measurement (empty, not a
\* number, 0, negative or not finite) it stores nothing: localStorage, and so
\* the stored calibration record and getCalibrationFactor(), are what they
\* were before the attempt, and the status asks for a valid measurement.
C8_InvalidMeasurementRejected ==
  [][ (HandleSaveCalibration /\ InvalidMeasurementText(calibrationMeasuredInput'))
        => /\ localStorage' = localStorage
           /\ getCalibrationFactor(localStorage', storageQuota')
                = getCalibrationFactor(localStorage, storageQuota)
           /\ calibrationStatus' =
                CalibrationAlert("Please enter a valid measurement.", "warning") ]_vars

\* -1 was rejected while the record of a measurement of 5 in is stored: the
\* record is still there and the factor still 6/5
C8_Witness ==
  /\ app = "running"
  /\ calibrationMeasuredInput = <<"-", "1">>
  /\ calibrationStatus = CalibrationAlert("Please enter a valid measurement.", "warning")
  /\ localStorage[CALIBRATION_KEY] = JSONstringify(CalibrationRecord(Whole(6), Whole(5)))
  /\ getCalibrationFactor(localStorage, storageQuota) = Return(JNumber(Num(6, 5)))

\* the scaleFactor of the record a store holds; undefined when it holds no
\* record
StoredScaleFactor(store) ==
  LET item == store[CALIBRATION_KEY]
  IN  IF item.present /\ item.ok THEN GetProperty(item.value, "scaleFactor")
      ELSE JUndefined

\* C9: getCalibrationFactor never throws; it returns the scaleFactor of the
\* stored record when that is a finite number other than zero, and 1.0 in
\* every other case (no record, storage unavailable, a stored value that does
\* not parse or is no record, scaleFactor missing, zero, not finite or not a
\* number).
C9_FactorOrIdentity ==
  invocation.fn = "getCalibrationFactor" =>
    LET f == StoredScaleFactor(invocation.store)
    IN  outcome =
          Return(IF /\ isStorageAvailable(invocation.store, invocation.quota)
                    /\ f.t = "number"
                    /\ IsFiniteNumber(f.n)
                    /\ f.n # Whole(0)
                 THEN f
                 ELSE JNumber(Whole(1)))

\* C10: while the status reports the record of a successful save of m,
\* through any later operation that is no calibration attempt,
\* getCalibrationFactor() returns that record's factor 6/m; while the status
\* reports the reset of handleClearCalibration it returns 1.0.
C10_FactorFollowsLifecycle ==
  app = "running" =>
    /\ calibrationStatus.message = "Calibration active" =>
         getCalibrationFactor(localStorage, storageQuota)
           = Return(JNumber(JSDiv(Whole(6),
                                  GetProperty(calibrationStatus.cal, "measuredInches").n)))
    /\ calibrationStatus.message = "Calibration reset to default (no correction)." =>
         getCalibrationFactor(localStorage, storageQuota) = Return(JNumber(Whole(1)))

(***************************************************************************)
(* Properties of rendering                                                 *)
(***************************************************************************)

\* C11: a step that reports the record of a measurement of 6.25 stores a
\* record with expectedInches = 6 and scaleFactor = 0.96; and a step that
\* renders buttons, with f the calibration factor in force, puts every button
\* of the layout at left = x * f and top = y * f with width and height
\* cutLineDiameter * f, the cut-line radius cutLineDiameter * f / 2 and the
\* content-guide radius contentGuideDiameter * f / 2 (both in pixels).
C11_CalibrationCorrection ==
  [][ /\ ( /\ calibrationStatus' # calibrationStatus
           /\ calibrationStatus'.message = "Calibration active"
           /\ GetProperty(calibrationStatus'.cal, "measuredInches")
                = JNumber(Num(625, 100)) )
         => /\ GetProperty(calibrationStatus'.cal, "expectedInches") = JNumber(Whole(6))
            /\ GetProperty(calibrationStatus'.cal, "scaleFactor") = JNumber(Num(96, 100))
            /\ localStorage'[CALIBRATION_KEY] = JSONstringify(calibrationStatus'.cal)
      /\ (printLayout' # printLayout /\ printLayout'.kind = "buttons")
         => \A layout \in {generatePrintLayout(GetImageState(controller), US_LETTER).value},
               f \in {ToNumber(getCalibrationFactor(localStorage, storageQuota).value)} :
              LET d == layout.buttonSize.cutLineDiameter
                  g == layout.buttonSize.contentGuideDiameter
                  cells == printLayout'.cells
              IN  /\ Len(cells) = Len(layout.buttons)
                  /\ \A i \in DOMAIN cells :
                       /\ cells[i].left = JSMul(layout.buttons[i].x, f)
                       /\ cells[i].top = SurdScale(f, layout.buttons[i].y)
                       /\ cells[i].width = JSMul(d, f)
                       /\ cells[i].height = JSMul(d, f)
                       /\ cells[i].cutRadiusPx =
                            JSMul(JSDiv(JSMul(d, f), Whole(2)), Whole(96))
                       /\ cells[i].contentRadiusPx =
                            JSMul(JSDiv(JSMul(g, f), Whole(2)), Whole(96)) ]_vars

\* the 20 buttons of the 1.25" size printed with the factor 0.96 of a stored
\* measurement of 6.25
C11_Witness ==
  /\ printLayout.kind = "buttons"
  /\ printLayout.cal = Num(96, 100)
  /\ Len(printLayout.cells) = 20
  /\ printLayout.cells[1].width = JSMul(Num(1772, 1000), Num(96, 100))
  /\ printLayout.cells[20].top # printLayout.cells[1].top
  /\ calibrationStatus.message = "Calibration active"
  /\ calibrationMeasuredInput = <<" ", "6", ".", "2", "5", " ">>
  /\ GetProperty(localStorage[CALIBRATION_KEY].value, "measuredInches")
       = JNumber(Num(625, 100))

\* C12: with no calibration record stored getCalibrationFactor() returns 1.0,
\* and a layout rendered while the factor is 1.0 has every button at its own
\* x and y with the diameters of its button size.
C12_IdentityWithoutRecord ==
  /\ ( /\ invocation.fn \in {"getCalibrationFactor", "renderPrintLayout"}
       /\ ~invocation.store[CALIBRATION_KEY].present )
     => getCalibrationFactor(invocation.store, invocation.quota)
          = Return(JNumber(Whole(1)))
  /\ ( /\ invocation.fn = "getCalibrationFactor"
       /\ ~invocation.store[CALIBRATION_KEY].present )
     => outcome = Return(JNumber(Whole(1)))
  /\ ( /\ invocation.fn = "renderPrintLayout"
       /\ ToNumber(getCalibrationFactor(invocation.store, invocation.quota).value)
            = Whole(1) )
     => LET layout == invocation.layout
            cells == printLayout.cells
        IN  /\ printLayout.kind = "buttons"
            /\ Len(cells) = Len(layout.buttons)
            /\ \A i \in DOMAIN cells :
                 /\ cells[i].left = layout.buttons[i].x
                 /\ cells[i].top = layout.buttons[i].y
                 /\ cells[i].width = layout.buttonSize.cutLineDiameter
                 /\ cells[i].height = layout.buttonSize.cutLineDiameter
                 /\ cells[i].cutRadiusPx =
                      JSMul(JSDiv(layout.buttonSize.cutLineDiameter, Whole(2)), Whole(96))
                 /\ cells[i].contentRadiusPx =
                      JSMul(JSDiv(layout.buttonSize.contentGuideDiameter, Whole(2)),
                            Whole(96))

\* a hex layout rendered with room in storage and no record in it
C12_Witness ==
  /\ invocation.fn = "renderPrintLayout"
  /\ invocation.quota = 200
  /\ ~invocation.store[CALIBRATION_KEY].present
  /\ invocation.layout.buttonSize.layout = "hex"
  /\ printLayout.kind = "buttons"
  /\ Len(printLayout.cells) > 1
  /\ printLayout.cells[2].left = invocation.layout.buttons[2].x
  /\ printLayout.cells[2].left # Whole(0)

\* C13: whatever the calibration factor, renderPrintLayout draws each button's
\* image at naturalWidth * scale by naturalHeight * scale with its centre at
\* (offsetX, offsetY) from the centre of the canvas, scale and offsets being
\* those of the button's image state, which the call leaves as it was.
C13_ImagePlacementUncalibrated ==
  invocation.fn = "renderPrintLayout"
    => /\ printLayout.kind = "buttons"
       /\ Len(printLayout.cells) = Len(invocation.layout.buttons)
       /\ \A i \in DOMAIN printLayout.cells :
            LET st == invocation.layout.buttons[i].imageState
                cell == printLayout.cells[i]
                centre == JSDiv(cell.canvasSize, Whole(2))
            IN  /\ cell.image = st.image
                /\ cell.drawW = JSMul(Whole(st.image.naturalWidth), st.scale)
                /\ cell.drawH = JSMul(Whole(st.image.naturalHeight), st.scale)
                /\ JSSub(JSAdd(cell.imgX, JSDiv(cell.drawW, Whole(2))), centre)
                     = st.offsetX
                /\ JSSub(JSAdd(cell.imgY, JSDiv(cell.drawH, Whole(2))), centre)
                     = st.offsetY
                /\ st \in RenderImageStates

\* a zoomed and panned image rendered with the factor 0.96
C13_Witness ==
  /\ invocation.fn = "renderPrintLayout"
  /\ ToNumber(getCalibrationFactor(invocation.store, invocation.quota).value)
       = Num(96, 100)
  /\ Len(printLayout.cells) > 0
  /\ invocation.layout.buttons[1].imageState.scale = Whole(2)
  /\ invocation.layout.buttons[1].imageState.offsetX = Whole(-7)
  /\ invocation.layout.buttons[1].imageState.offsetY = Num(5, 2)
  /\ printLayout.cells[1].drawW = Whole(800)
  /\ printLayout.cells[1].width # invocation.layout.buttonSize.cutLineDiameter

\* C14: every button of a layout returned by generatePrintLayout, grid or hex,
\* carries the image state that was passed in, and the layout carries its
\* button size.
C14_SameImageState ==
  (LayoutCalled /\ Returned)
    => /\ outcome.value.buttonSize = invocation.imageState.buttonSize
       /\ \A i \in DOMAIN outcome.value.buttons :
            outcome.value.buttons[i].imageState = invocation.imageState

\* the 20 buttons of the grid of the 1.25" size on US Letter
C14_Witness ==
  /\ GridCalled
  /\ Returned
  /\ invocation.paperSize = US_LETTER
  /\ Len(outcome.value.buttons) = 20
  /\ outcome.value.buttons[20].imageState = invocation.imageState
  /\ outcome.value.buttons[20].x # outcome.value.buttons[1].x

C17_LayoutTagOnlyForHex ==
  /\ invocation.fn = "calculateButtonsPerPage" => outcome.value.layout = "undefined"
  /\ (LayoutCalled /\ Returned)
       => /\ HexCalled => outcome.value.grid.layout = "hex"
          /\ GridCalled => outcome.value.grid.layout = "undefined"

\* a layout generated for a size whose layout is 'grid'
C17_Witness ==
  /\ GridCalled
  /\ Returned
  /\ invocation.imageState.buttonSize.layout = "grid"
  /\ outcome.value.grid.layout = "undefined"
  /\ Len(outcome.value.buttons) > 0

\* C17: the grid descriptor of every layout has the layout tag 'grid' for a
\* size of the grid strategy and 'hex' for a size of the hex strategy.
C17_LayoutTagMirrors ==
  (LayoutCalled /\ Returned)
    => /\ HexCalled => outcome.value.grid.layout = "hex"
       /\ GridCalled => outcome.value.grid.layout = "grid"

\* C18 as amended: in every state getButtonSize("1.25") returns the record with
\* cutLineDiameter 1.772, contentGuideDiameter 1.156, maxRows 5 and no layout
\* property, and getButtonSize("2.25") the record with cutLineDiameter 2.625,
\* contentGuideDiameter 2.063, layout 'hex' and maxRows 4; the size the
\* controller was given is the record of the key selected.
C18_CatalogLookups ==
  /\ getButtonSize("1.25")
       = Return([found |-> "own",
                 size |-> [name |-> "1.25 inch", cutLineDiameter |-> Num(1772, 1000),
                           contentGuideDiameter |-> Num(1156, 1000),
                           layout |-> "undefined", maxRows |-> Whole(5)]])
  /\ getButtonSize("2.25")
       = Return([found |-> "own",
                 size |-> [name |-> "2.25 inch", cutLineDiameter |-> Num(2625, 1000),
                           contentGuideDiameter |-> Num(2063, 1000),
                           layout |-> "hex", maxRows |-> Whole(4)]])
  /\ app = "running"
       => controller.buttonSize = getButtonSize(currentSizeKey).value.size

\* the 1.25" size selected again after a page of the 2.25" size was printed
C18_Witness ==
  /\ app = "running"
  /\ currentSizeKey = "1.25"
  /\ controller.buttonSize.layout = "undefined"
  /\ controller.buttonSize.maxRows = Whole(5)
  /\ printLayout.kind = "buttons"
  /\ Len(printLayout.cells) = 10
  /\ localStorage[CALIBRATION_KEY].present

\* C18: in every state the lookup of the selected key returns, for "1.25", the
\* record with cutLineDiameter 1.772, contentGuideDiameter 1.156, layout grid
\* and maxRows 5, and for "2.25" the record with cutLineDiameter 2.625,
\* contentGuideDiameter 2.063, layout hex and maxRows 4.
C18_CatalogLayoutGrid ==
  /\ currentSizeKey = "1.25" => getButtonSize(currentSizeKey)
       = Return([found |-> "own",
                 size |-> [name |-> "1.25 inch", cutLineDiameter |-> Num(1772, 1000),
                           contentGuideDiameter |-> Num(1156, 1000),
                           layout |-> "grid", maxRows |-> Whole(5)]])
  /\ currentSizeKey = "2.25" => getButtonSize(currentSizeKey)
       = Return([found |-> "own",
                 size |-> [name |-> "2.25 inch", cutLineDiameter |-> Num(2625, 1000),
                           contentGuideDiameter |-> Num(2063, 1000),
                           layout |-> "hex", maxRows |-> Whole(4)]])

\* C19: the layout generatePrintLayout returns for a size of the hex strategy
\* has the button positions and the grid it returns for the same image state
\* on the paper of the same width and height with every margin zero, so on
\* any two papers that differ in their margins only.
C19_HexIgnoresMargins ==
  (HexCalled /\ Returned)
    => \A other \in {generatePrintLayout(invocation.imageState,
                         [invocation.paperSize EXCEPT !.marginTop = Whole(0),
                            !.marginRight = Whole(0), !.marginBottom = Whole(0),
                            !.marginLeft = Whole(0)])} :
         /\ other.kind = "return"
         /\ other.value.buttons = outcome.value.buttons
         /\ other.value.grid = outcome.value.grid

\* a hex layout of 10 buttons on a paper with a left margin of 1 in and a
\* right margin of 1/2 in
C19_Witness ==
  /\ HexCalled
  /\ Returned
  /\ invocation.paperSize.marginLeft = Whole(1)
  /\ invocation.paperSize.marginRight = Num(1, 2)
  /\ invocation.paperSize.width = Whole(6)
  /\ Len(outcome.value.buttons) = 10

\* C20: during a render pass every button rendered so far was placed and
\* sized with the factor read from the record stored when the pass began,
\* whatever is stored by now, and the finished pass is the page of that one
\* factor.
C20_FactorReadOnce ==
  invocation.fn = "renderPrintLayout"
    => \A f \in {ToNumber(getCalibrationFactor(invocation.store,
                                               invocation.quota).value)} :
         /\ printLayout.kind = "buttons"
         /\ Len(printLayout.cells) = invocation.next - 1
         /\ \A i \in DOMAIN printLayout.cells :
              /\ printLayout.cells[i].left = JSMul(invocation.layout.buttons[i].x, f)
              /\ printLayout.cells[i].top = SurdScale(f, invocation.layout.buttons[i].y)
              /\ printLayout.cells[i].width =
                   JSMul(invocation.layout.buttonSize.cutLineDiameter, f)
              /\ printLayout.cells[i].contentRadiusPx =
                   JSMul(JSDiv(JSMul(invocation.layout.buttonSize.contentGuideDiameter,
                                     f), Whole(2)), Whole(96))
         /\ ~PassInProgress
              => printLayout = renderPrintLayout(invocation.layout, invocation.store,
                                                 invocation.quota)

\* a pass begun with the record of 6.25 stored, some buttons rendered and
\* others not yet, while the record stored is now that of 5
C20_Witness ==
  /\ PassInProgress
  /\ invocation.next > 2
  /\ invocation.cal = Num(96, 100)
  /\ ToNumber(getCalibrationFactor(localStorage, storageQuota).value) = Num(12, 10)
  /\ printLayout.cells[invocation.next - 1].width
       = JSMul(invocation.layout.buttonSize.cutLineDiameter, Num(96, 100))

(***************************************************************************)
(* Properties of the unit conversions                                      *)
(***************************************************************************)

\* C21 as amended: for a non-negative x, pixelsToInches(inchesToPixels(x)) is
\* x when 96 * x is a number itself, differs from x by at most one unit in
\* the last place of x when 96 * x is rounded, and is Infinity when 96 * x
\* exceeds the largest number.
C21_RoundTripWithinUlp ==
  invocation.fn = "pixelsToInches(inchesToPixels)"
    => \A x \in {invocation.x} :
         /\ Returned
         /\ invocation.pixels = inchesToPixels(x) => outcome.value = x
         /\ JSGt(inchesToPixels(x), MaxFloat) => outcome.value = Infinity
         /\ (~JSGt(inchesToPixels(x), MaxFloat) /\ x # Whole(0))
              => /\ IsFiniteNumber(outcome.value)
                 /\ JSLe(JSSub(outcome.value, x),
                         Scaled(Whole(1), -UlpExponent(x, -2 * ExponentRange)))
                 /\ JSLe(JSSub(x, outcome.value),
                         Scaled(Whole(1), -UlpExponent(x, -2 * ExponentRange)))

\* 11/8 in, whose 132 px are rounded to 128 px, which are 4/3 in, rounded to
\* 21/16 in
C21_Witness ==
  /\ invocation.fn = "pixelsToInches(inchesToPixels)"
  /\ invocation.x = Num(11, 8)
  /\ invocation.pixels = Whole(128)
  /\ outcome = Return(Num(21, 16))

\* C21: for every non-negative x, pixelsToInches(inchesToPixels(x)) = x.
C21_RoundTripIsIdentity ==
  invocation.fn = "pixelsToInches(inchesToPixels)"
    => outcome = Return(invocation.x)

(***************************************************************************)
(* Further properties of the layouts                                       *)
(***************************************************************************)

\* C22: calculateButtonsPerPage returns rows = floor(printableHeight /
\* cutLineDiameter) for a size without maxRows, and the smaller of that and
\* maxRows, so never more than maxRows, for a size with maxRows; columns are
\* floor(printableWidth / cutLineDiameter) whatever maxRows is.
C22_RowsCappedColumnsNot ==
  invocation.fn = "calculateButtonsPerPage"
    => LET p == invocation.paperSize
           d == invocation.buttonSize.cutLineDiameter
           maxRows == invocation.buttonSize.maxRows
           rows == MathFloor(JSDiv(JSSub(JSSub(p.height, p.marginTop), p.marginBottom), d))
           columns == MathFloor(JSDiv(JSSub(JSSub(p.width, p.marginLeft), p.marginRight), d))
       IN  /\ Returned
           /\ outcome.value.columns = columns
           /\ maxRows = Undefined => outcome.value.rows = rows
           /\ maxRows # Undefined
                => /\ JSLe(outcome.value.rows, maxRows)
                   /\ outcome.value.rows = IF JSGt(rows, maxRows) THEN maxRows ELSE rows

\* a size of 1 in with at most 2 rows on US Letter: 7 columns, 2 of 10 rows
C22_Witness ==
  /\ invocation.fn = "calculateButtonsPerPage"
  /\ invocation.paperSize = US_LETTER
  /\ invocation.buttonSize.cutLineDiameter = Whole(1)
  /\ invocation.buttonSize.maxRows = Whole(2)
  /\ outcome.value.columns = Whole(7)
  /\ outcome.value.rows = Whole(2)

\* C23: a layout of the grid strategy with columns and rows above zero has
\* columns * rows buttons, the button of row r and column c at place
\* r * columns + c of the list (counting from 0), with
\* x = marginLeft + c * cellWidth + (cellWidth - diameter) / 2 and
\* y = marginTop + r * cellHeight + (cellHeight - diameter) / 2, where
\* cellWidth = printableWidth / columns and cellHeight = printableHeight / rows;
\* with no column or no row it has no button.
C23_GridRowMajor ==
  (GridCalled /\ Returned)
    => LET p == invocation.paperSize
           d == invocation.imageState.buttonSize.cutLineDiameter
           columns == outcome.value.grid.columns
           rows == outcome.value.grid.rows
           buttons == outcome.value.buttons
           cellWidth == JSDiv(JSSub(JSSub(p.width, p.marginLeft), p.marginRight), columns)
           cellHeight == JSDiv(JSSub(JSSub(p.height, p.marginTop), p.marginBottom), rows)
       IN  IF columns[1] <= 0 \/ rows[1] <= 0 THEN buttons = <<>>
           ELSE /\ Len(buttons) = columns[1] * rows[1]
                /\ \A r \in 0..(rows[1] - 1), c \in 0..(columns[1] - 1) :
                     /\ buttons[r * columns[1] + c + 1].x
                          = JSAdd(JSAdd(p.marginLeft, JSMul(Whole(c), cellWidth)),
                                  JSDiv(JSSub(cellWidth, d), Whole(2)))
                     /\ buttons[r * columns[1] + c + 1].y
                          = Surd(JSAdd(JSAdd(p.marginTop, JSMul(Whole(r), cellHeight)),
                                       JSDiv(JSSub(cellHeight, d), Whole(2))),
                                 Whole(0))

\* the 4 by 5 grid of the 1.25" size on US Letter: the fifth button starts
\* the second row
C23_Witness ==
  /\ GridCalled
  /\ Returned
  /\ invocation.paperSize = US_LETTER
  /\ outcome.value.grid.columns = Whole(4)
  /\ outcome.value.grid.rows = Whole(5)
  /\ Len(outcome.value.buttons) = 20
  /\ outcome.value.buttons[5].x = outcome.value.buttons[1].x
  /\ outcome.value.buttons[5].y # outcome.value.buttons[1].y
  /\ JSLt(outcome.value.buttons[1].x, outcome.value.buttons[2].x)

LCM(a, b) == (a \div GCD(a, b)) * b

\* whether a + b * sqrt(3) >= 0, for integers a and b
SurdNonNegative(a, b) ==
  IF a >= 0 /\ b >= 0 THEN TRUE
  ELSE IF a <= 0 /\ b <= 0 THEN FALSE
  ELSE IF a >= 0 THEN 3 * b * b <= a * a
  ELSE a * a <= 3 * b * b

\* whether |a| >= d, for finite numbers a and d
AtLeastApart(a, d) ==
  LET den == LCM(a[2], d[2])
  IN  Abs(a[1]) * (den \div a[2]) >= d[1] * (den \div d[2])

\* whether the centres of the circles of two buttons are at least d apart.
\* The centre of a button is d/2 right of and below its x and y; with dx and
\* q + r sqrt(3) the differences of the x and of the y, the centres are d
\* apart when |dx| >= d, when the y differ by a number of size d or more, or
\* when dx^2 + (q + r sqrt(3))^2 >= d^2, compared over a common denominator
CentresApart(one, other, d) ==
  LET dx == JSSub(one.x, other.x)
      q == JSSub(one.y.q, other.y.q)
      r == JSSub(one.y.r, other.y.r)
      den == LCM(LCM(dx[2], q[2]), LCM(r[2], d[2]))
      dxN == dx[1] * (den \div dx[2])
      qN == q[1] * (den \div q[2])
      rN == r[1] * (den \div r[2])
      dN == d[1] * (den \div d[2])
  IN  \/ AtLeastApart(dx, d)
      \/ r = Whole(0) /\ AtLeastApart(q, d)
      \/ SurdNonNegative(dxN * dxN + qN * qN + 3 * rN * rN - dN * dN, 2 * qN * rN)

C29_TotalIsButtonCount ==
  (LayoutCalled /\ Returned)
    => outcome.value.grid.total = Whole(Len(outcome.value.buttons))

\* the same for the papers whose printable width and height are not negative
C29_TotalIsButtonCountWhenPrintable ==
  (/\ LayoutCalled
   /\ Returned
   /\ \/ HexCalled
      \/ /\ JSLe(Whole(0), PrintableWidth(invocation.paperSize))
         /\ JSLe(Whole(0), PrintableHeight(invocation.paperSize)))
    => outcome.value.grid.total = Whole(Len(outcome.value.buttons))

(***************************************************************************)
(* Properties of the CanvasController (under SpecController)               *)
(***************************************************************************)

\* C24: the scale of the controller is strictly positive in every state its
\* methods and canvas events can bring it to
C24_ScalePositive == JSGt(controller.scale, Whole(0))

\* C25: setButtonSize, called with any size of the catalog in any state of the
\* controller, sets the button size and leaves the image, the scale, the two
\* offsets and the mode as they were
C25_SetButtonSizeKeepsTransform ==
  \A key \in DOMAIN BUTTON_SIZES :
    LET after == SetButtonSize(controller, BUTTON_SIZES[key])
    IN  /\ after.buttonSize = BUTTON_SIZES[key]
        /\ after.image = controller.image
        /\ after.scale = controller.scale
        /\ after.offsetX = controller.offsetX
        /\ after.offsetY = controller.offsetY
        /\ after.mode = controller.mode

\* the controller of a loaded image still has the scale at which that image
\* covers the cut line of the 1.25 inch size, and a pan, while its button size
\* is the 2.25 inch size: setButtonSize acted on a scaled and panned image
C25_Witness ==
  /\ controller.image = TestImage
  /\ controller.buttonSize = BUTTON_SIZES["2.25"]
  /\ controller.scale = ResetTransform(SetButtonSize(controller, BUTTON_SIZES["1.25"])).scale
  /\ controller.offsetX = Whole(2)
  /\ controller.offsetY = Whole(1)
  /\ controller.mode = "preview"

(***************************************************************************)
(* Properties of image loading (under SpecLoads)                           *)
(***************************************************************************)

\* C26: once no load is pending, the image of the controller and the file
\* name shown are those of the file picked last, when that file loads,
\* whichever of the loads settled first
C26_LastPickedWins ==
  (/\ loading = <<>>
   /\ invocation.fn = "handleImageSelect"
   /\ validateImageFile(invocation.file)
   /\ invocation.file.fate = "ok"
   /\ invocation.file.naturalWidth > 0
   /\ invocation.file.naturalHeight > 0)
    => /\ ~IsNull(controller.image)
       /\ controller.image.name = invocation.file.name
       /\ fileLabelText = invocation.file.name

\* a file loadImage rejects, as the claim lists them: unsupported format,
\* read error, decode error, zero-sized image
RejectedFile(file) ==
  \/ file.type \notin SUPPORTED_FORMATS
  \/ file.fate \in {"readError", "decodeError"}
  \/ file.naturalWidth = 0
  \/ file.naturalHeight = 0

\* C27: when the load of a rejected file settles, the image, scale, offsets
\* and button size of the controller and the file name shown are as before,
\* and the error is shown
C27_RejectionKeepsController ==
  [][\A i \in DOMAIN loading :
       (/\ Len(loading') < Len(loading)
        /\ loading' = SubSeq(loading, 1, i - 1) \o SubSeq(loading, i + 1, Len(loading))
        /\ RejectedFile(loading[i]))
         => /\ GetImageState(controller') = GetImageState(controller)
            /\ fileLabelText' = fileLabelText
            /\ ~imageError'.hidden
            /\ imageError'.text # ""]_vars

\* an image was loaded and scaled with the slider; then an empty image and a
\* text file were picked in a row (the file picked last is the text file, the
\* error shown is that of the empty image, so both were pending together and
\* the image was in place before either was rejected)
C27_Witness ==
  /\ loading = <<>>
  /\ controller # [isNull |-> TRUE]
  /\ ~IsNull(controller.image)
  /\ controller.image.name = "a.png"
  /\ fileLabelText = "a.png"
  /\ controller.scale = JSMul(computeBaseScale(controller), Whole(2))
  /\ ~imageError.hidden
  /\ imageError.text = "Image appears to be corrupted or empty."
  /\ invocation.fn = "handleImageSelect"
  /\ invocation.file.name = "notes.txt"

====
